---- MODULE Spec2Model ----
(***************************************************************************)
(* A model of src/src/filesystem/FileSystem.js: the FileSystem facade with *)
(* its path normalisation, entry index, watched-root registry, serial     *)
(* watch/unwatch request queue and external-change coordinator.           *)
(*                                                                         *)
(* Paths are sequences of one-character strings, so that indexOf, split,  *)
(* join and the slash-collapsing replace are computed character by        *)
(* character as the JavaScript does.                                       *)
(***************************************************************************)
EXTENDS Naturals, Integers, Sequences, FiniteSets, TLC

VARIABLES
    impl,              \* this._impl: [recursiveWatch, normalizeUNCPaths]
    entries,           \* heap of File/Directory objects, indexed by identity
    index,             \* this._index: canonical path -> entry identity
    roots,             \* heap of watchedRoot records, indexed by identity
    watchedRoots,      \* this._watchedRoots: keys in insertion order, each with its record
    watchRequests,     \* this._watchRequests
    activeChangeCount, \* this._activeChangeCount
    externalChanges,   \* this._externalChanges
    pendingReaddir,    \* directory reloads issued by _handleDirectoryChange, not yet called back
    pendingStat,       \* stat calls issued by resolve, not yet called back
    changeLog,         \* history: per reported change, how it was enqueued and handled
    handled,           \* history: _handleExternalChange invocations of the last step
    events,            \* history: change events fired in the last step
    lastCall,          \* history: the facade call of the last step and its result
    lastCb,            \* history: the watch/unwatch callback invoked in the last step
    liveHandles,       \* history: <<path, handle, input>> of the handles that
                       \* getFileForPath/getDirectoryForPath returned since the
                       \* path was last removed from the index
    allHandles         \* history: <<path, handle>> of every handle ever returned

vars == << impl, entries, index, roots, watchedRoots, watchRequests,
           activeChangeCount, externalChanges, pendingReaddir, changeLog, handled, events,
           lastCall, lastCb, liveHandles, allHandles, pendingStat >>

(***************************************************************************)
(* Bounds of the model.                                                    *)
(***************************************************************************)
MaxEntries  == 3   \* File/Directory objects ever constructed
FewEntries  == 2   \* those constructed where no directory needs two children
MaxRoots    == 3   \* watch() calls that register a record
MaxRequests == 3   \* length of the watch/unwatch request queue
MaxVisit    == 1   \* entries one non-recursive visit collects
QueueEntries == 1  \* Directory objects constructed under SpecQueue
MaxChanges  == 2   \* changes the backend reports
MaxActive   == 2   \* nesting depth of beginChange
MaxUnderflow == 1  \* unmatched endChange calls
MaxMtime    == 2   \* distinct modification times a stat carries
MaxResolves == 1   \* resolve() calls whose stat is outstanding
IndexRoots  == 1   \* watch() calls that register a record under SpecIndex
IndexRequests == 2 \* length of the request queue under SpecIndex
DirRoots    == 1   \* watch() calls that register a record under SpecDir
DirRequests == 2   \* queued requests an unwatch may leave under SpecDir
FilterRoots == 2   \* watch() calls that register a record under SpecFilter
RecursiveRoots == 2 \* watch() calls that register a record under SpecRecursive
RecursiveChanges == 1 \* changes the backend reports under SpecRecursive
VisitRoots  == 2   \* watch() calls that register a record under SpecVisit
MaxLen      == 6   \* characters of a path given to _normalizePath

(***************************************************************************)
(* Paths                                                                   *)
(***************************************************************************)
NoPath == << "<", "n", "u", "l", "l", ">" >>

P_root   == << "/" >>
P_a      == << "/", "a" >>
P_aS     == << "/", "a", "/" >>
P_SSa    == << "/", "/", "a" >>
P_aUPa   == << "/", "a", "/", ".", ".", "/", "a" >>
P_af     == << "/", "a", "/", "f" >>
P_ag     == << "/", "a", "/", "g" >>
P_rel    == << "a" >>
P_up     == << "/", ".", "." >>
P_aUP    == << "/", "a", "/", ".", "." >>
P_aUPUP  == << "/", "a", "/", ".", ".", "/", ".", "." >>
P_drive  == << "c", ":", "/", "a" >>
P_driveUP == << "c", ":", "/", ".", "." >>

\* The raw paths callers pass to the facade.
RawPaths == { P_root, P_a, P_SSa, P_aUPa, P_af, P_rel, P_up }

\* fullPath.indexOf(prefix) === 0
startsWith(fullPath, prefix) ==
    /\ Len(prefix) <= Len(fullPath)
    /\ SubSeq(fullPath, 1, Len(prefix)) = prefix

\* A variant that forgets the drive prefix.
startsWithSlashOnly(fullPath) == Len(fullPath) >= 1 /\ fullPath[1] = "/"

isAbsolutePath(fullPath) ==
    \/ Len(fullPath) >= 1 /\ fullPath[1] = "/"
    \/ Len(fullPath) >= 2 /\ fullPath[2] = ":"

appendTrailingSlash(path) ==
    IF path = << >> \/ path[Len(path)] # "/" THEN Append(path, "/") ELSE path

\* path.search(_DUPLICATED_SLASH_RE) === 0
startsWithDuplicatedSlash(path) ==
    Len(path) >= 2 /\ path[1] = "/" /\ path[2] = "/"

\* path.replace(_DUPLICATED_SLASH_RE, "/")
RECURSIVE collapseSlashes(_)
collapseSlashes(path) ==
    IF path = << >> THEN << >>
    ELSE IF Len(path) >= 2 /\ path[1] = "/" /\ path[2] = "/"
         THEN collapseSlashes(Tail(path))
         ELSE << path[1] >> \o collapseSlashes(Tail(path))

\* path.indexOf("..") !== -1
containsDotDot(path) ==
    \E i \in 1..(Len(path) - 1) : path[i] = "." /\ path[i + 1] = "."

\* path.split("/")
RECURSIVE splitSlash(_, _)
splitSlash(path, cur) ==
    IF path = << >> THEN << cur >>
    ELSE IF path[1] = "/"
         THEN << cur >> \o splitSlash(Tail(path), << >>)
         ELSE splitSlash(Tail(path), Append(cur, path[1]))

\* segments.join("/")
RECURSIVE joinSlash(_)
joinSlash(segments) ==
    IF segments = << >> THEN << >>
    ELSE IF Len(segments) = 1 THEN segments[1]
         ELSE segments[1] \o << "/" >> \o joinSlash(Tail(segments))

\* segments.splice(at, 2), with at a JavaScript (0-based) index
splice2(segments, at) ==
    SubSeq(segments, 1, at) \o SubSeq(segments, at + 3, Len(segments))

DotDot == << ".", "." >>

\* The for loop of _normalizePath; i is the JavaScript (0-based) index.
RECURSIVE removeDotDot(_, _)
removeDotDot(segments, i) ==
    IF i >= Len(segments) THEN [ok |-> TRUE, segments |-> segments]
    ELSE IF segments[i + 1] = DotDot
         THEN IF i < 2
              THEN [ok |-> FALSE, segments |-> segments]
              ELSE removeDotDot(splice2(segments, i - 1), i - 1)
         ELSE removeDotDot(segments, i + 1)

Thrown(msg) == [ok |-> FALSE, path |-> NoPath, error |-> msg]
Returned(path) == [ok |-> TRUE, path |-> path, error |-> "none"]

normalizePathWith(normalizeUNCPaths, path, isDirectory) ==
    IF ~isAbsolutePath(path) THEN Thrown("Paths must be absolute")
    ELSE
      LET isUNCPath == normalizeUNCPaths /\ startsWithDuplicatedSlash(path)
          collapsed == collapseSlashes(path)
          dd        == IF containsDotDot(collapsed)
                       THEN removeDotDot(splitSlash(collapsed, << >>), 1)
                       ELSE [ok |-> TRUE, segments |-> << >>]
          resolved  == IF containsDotDot(collapsed)
                       THEN joinSlash(dd.segments)
                       ELSE collapsed
          slashed   == IF isDirectory THEN appendTrailingSlash(resolved) ELSE resolved
      IN  IF ~dd.ok THEN Thrown("Invalid absolute path")
          ELSE Returned(IF isUNCPath THEN << "/" >> \o slashed ELSE slashed)

normalizePath(path, isDirectory) ==
    normalizePathWith(impl.normalizeUNCPaths, path, isDirectory)


(***************************************************************************)
(* The backend (impl): its two capability flags and the errors it reports.  *)
(***************************************************************************)
Impls == [recursiveWatch : BOOLEAN, normalizeUNCPaths : BOOLEAN]

NoError      == "null"
BackendError == "BackendError"
BackendResults == { NoError, BackendError }

ParentWatched == "A parent of this root is already watched"
ChildWatched  == "A child of this root is already watched"
NotWatched    == "Root is not watched."

(***************************************************************************)
(* Entries and the FileIndex.  File, Directory and FileIndex are modules   *)
(* of the repository that FileSystem.js requires; an entry is an object    *)
(* with an identity (its position in the heap), a fullPath, a kind and a   *)
(* cached stat (0: none, otherwise the mtime).                             *)
(***************************************************************************)
NoEntry == 0
NoRoot  == 0
NoStat  == 0

\* An entry's cached contents: none, or (cached) the text of a file, which
\* is not looked into here, or the children of a directory in the backend's
\* order.
NoContents == [cached |-> FALSE, children |-> << >>]

Cached(children) == [cached |-> TRUE, children |-> children]

NewEntry(fullPath, isFile) ==
    [fullPath |-> fullPath, isFile |-> isFile, stat |-> NoStat,
     contents |-> NoContents]

\* entry._clearCachedData()
clearCachedData(entry) == [entry EXCEPT !.stat = NoStat, !.contents = NoContents]

EmptyIndex == [p \in {} |-> NoEntry]

indexGetEntry(idx, path) == IF path \in DOMAIN idx THEN idx[path] ELSE NoEntry

indexAddEntry(idx, path, id) ==
    [p \in (DOMAIN idx) \cup {path} |-> IF p = path THEN id ELSE idx[p]]

\* index.visitAll(child => if (child.fullPath.indexOf(prefix) === 0) index.removeEntry(child))
indexRemoveUnder(idx, prefix) ==
    [p \in {q \in DOMAIN idx : ~startsWith(q, prefix)} |-> idx[p]]

\* A variant that clears no entry's cached data.
clearsNothing(ents, idx, prefix) == ents

\* A variant that clears the cached data of the entry at prefix alone.
clearsEntryOnly(ents, idx, prefix) ==
    [e \in DOMAIN ents |->
        IF \E p \in DOMAIN idx : idx[p] = e /\ ents[e].fullPath = prefix
        THEN clearCachedData(ents[e])
        ELSE ents[e]]

\* index.visitAll(child => if (child.fullPath.indexOf(prefix) === 0) child._clearCachedData())
clearCachedUnder(ents, idx, prefix) ==
    [e \in DOMAIN ents |->
        IF \E p \in DOMAIN idx : idx[p] = e /\ startsWith(ents[e].fullPath, prefix)
        THEN clearCachedData(ents[e])
        ELSE ents[e]]

(***************************************************************************)
(* The watched-root registry: an object whose keys keep insertion order.   *)
(***************************************************************************)
Min(S) == CHOOSE x \in S : \A y \in S : x <= y

registryKeys(wr) == { wr[i].path : i \in 1..Len(wr) }

\* A variant that takes the first record whose key is a prefix of the path.
registryGetByPrefix(wr, path) ==
    IF \E i \in 1..Len(wr) : startsWith(path, wr[i].path)
    THEN wr[Min({ i \in 1..Len(wr) : startsWith(path, wr[i].path) })].root
    ELSE NoRoot

registryGet(wr, path) ==
    IF path \in registryKeys(wr)
    THEN wr[CHOOSE i \in 1..Len(wr) : wr[i].path = path].root
    ELSE NoRoot

\* this._watchedRoots[fullPath] = watchedRoot
registrySet(wr, path, root) ==
    IF path \in registryKeys(wr)
    THEN [i \in 1..Len(wr) |->
            IF wr[i].path = path THEN [path |-> path, root |-> root] ELSE wr[i]]
    ELSE Append(wr, [path |-> path, root |-> root])

\* delete this._watchedRoots[fullPath]
registryDelete(wr, path) == SelectSeq(wr, LAMBDA k : k.path # path)

findWatchedRootIn(wr, fullPath) ==
    LET hits == { i \in 1..Len(wr) : startsWith(fullPath, wr[i].path) }
    IN  IF hits = {} THEN NoRoot ELSE wr[Min(hits)].root

findWatchedRootForPath(fullPath) == findWatchedRootIn(watchedRoots, fullPath)

\* _indexFilter(path, name): parentRoot.filter(name, path) for the root
\* _findWatchedRootForPath finds, true when it finds none.  The filters are
\* the callers' predicates: accepts[r] is what the filter of root r returns
\* for this name and path.
indexFilter(path, accepts) ==
    LET parentRoot == findWatchedRootForPath(path)
    IN  IF parentRoot # NoRoot THEN accepts[parentRoot] ELSE TRUE

(***************************************************************************)
(* The watch/unwatch request queue.                                        *)
(***************************************************************************)
\* impl[commandName].call(impl, entry.fullPath, requestCb): the call a
\* request makes on a recursive backend.
backendCall(req) ==
    [command |-> IF req.shouldWatch THEN "watchPath" ELSE "unwatchPath",
     path |-> entries[req.entry].fullPath]

\* request.fn.call(null, continuation): what the work function does when started
startRequest(req) ==
    IF impl.recursiveWatch
    THEN [req EXCEPT !.phase = "calls", !.count = 1]   \* impl[commandName](entry.fullPath, requestCb)
    ELSE [req EXCEPT !.phase = "visit"]                \* entry.visit(visitor, ...)

\* A variant that never starts the head.
dequeueStartsNothing(queue) == queue

dequeueWatchRequest(queue) ==
    IF Len(queue) > 0 THEN [queue EXCEPT ![1] = startRequest(queue[1])] ELSE queue

\* A variant that starts every request as it is enqueued.
enqueueStartsAtOnce(queue, req) == Append(queue, startRequest(req))

enqueueWatchRequest(queue, req) ==
    LET pushed == Append(queue, req)
    IN  IF Len(pushed) = 1 THEN dequeueWatchRequest(pushed) ELSE pushed

\* The external change on whose behalf a request is made: none for the
\* requests of watch, unwatch and _unwatchAll.
NoChange == 0

NewRequest(shouldWatch, entry, root, cb) ==
    [shouldWatch |-> shouldWatch, entry |-> entry, root |-> root, cb |-> cb,
     phase |-> "queued", count |-> 0, sawError |-> FALSE, change |-> NoChange]


(***************************************************************************)
(* History values                                                          *)
(***************************************************************************)
NoCall == [op |-> "none"]
NoCb   == [kind |-> "none"]

\* The handles of hs whose path a step from index before to index after has
\* not removed from the index.
keptHandles(hs, before, after) ==
    { h \in hs : ~(h[1] \in DOMAIN before /\ h[1] \notin DOMAIN after) }

(***************************************************************************)
(* getFileForPath / getDirectoryForPath                                    *)
(***************************************************************************)
\* A variant that never finds the entry in the index.
neverIndexed(path) == NoEntry

\* var entry = this._index.getEntry(path);
existingEntry(path) == indexGetEntry(index, path)

\* A variant that forgets to put the new entry into the index.
notAddedToIndex(idx, path, id) == idx

\* this._index.addEntry(entry)
addToIndex(idx, path, id) == indexAddEntry(idx, path, id)

getEntryForPath(isDirectory, raw) ==
    LET n == normalizePath(raw, isDirectory)
    IN  IF ~n.ok
        THEN [ok |-> FALSE, error |-> n.error, entries |-> entries, index |-> index]
        ELSE LET found == existingEntry(n.path)
             IN  IF found # NoEntry
                 THEN [ok |-> TRUE, path |-> n.path, result |-> found,
                       created |-> FALSE, entries |-> entries, index |-> index]
                 ELSE [ok |-> TRUE, path |-> n.path, result |-> Len(entries) + 1,
                       created |-> TRUE,
                       entries |-> Append(entries, NewEntry(n.path, ~isDirectory)),
                       index |-> addToIndex(index, n.path, Len(entries) + 1)]

\* History of a getFileForPath/getDirectoryForPath call that gave r.
returned(isDirectory, raw, r) ==
    LET op == IF isDirectory THEN "getDirectoryForPath" ELSE "getFileForPath"
    IN  IF ~r.ok
        THEN /\ lastCall' = [op |-> op, raw |-> raw, ok |-> FALSE, error |-> r.error]
             /\ UNCHANGED << liveHandles, allHandles >>
        ELSE /\ lastCall' = [op |-> op, raw |-> raw, ok |-> TRUE, path |-> r.path,
                             result |-> r.result, created |-> r.created,
                             before |-> { h \in liveHandles : h[1] = r.path }]
             /\ liveHandles' = liveHandles \cup { << r.path, r.result, raw >> }
             /\ allHandles' = allHandles \cup { << r.path, r.result >> }

GetEntryForPath(isDirectory, raw) ==
    LET r == getEntryForPath(isDirectory, raw)
    IN  /\ Len(r.entries) <= MaxEntries
        /\ entries' = r.entries
        /\ index' = r.index
        /\ returned(isDirectory, raw, r)
        /\ lastCb' = NoCb /\ handled' = << >> /\ events' = << >>
        /\ UNCHANGED << impl, roots, watchedRoots, watchRequests, activeChangeCount,
                        externalChanges, pendingReaddir, changeLog, pendingStat >>

GetFileForPath(raw) == GetEntryForPath(FALSE, raw)

GetDirectoryForPath(raw) == GetEntryForPath(TRUE, raw)

(***************************************************************************)
(* resolve                                                                 *)
(***************************************************************************)
\* item._isWatched(): the entry lies inside an active watched root.
isWatched(fullPath, rts, wr) ==
    LET root == findWatchedRootIn(wr, fullPath)
    IN  root # NoRoot /\ rts[root].active

\* item._stat = stat, when the item is watched.
adoptStat(ents, id, mtime) ==
    IF isWatched(ents[id].fullPath, roots, watchedRoots)
    THEN [ents EXCEPT ![id].stat = mtime]
    ELSE ents

\* The synchronous part of resolve(path, callback): normalize, look the path
\* up as a file and then as a directory, and issue item.stat or impl.stat.
Resolve(raw) ==
    LET n == normalizePath(raw, FALSE)
    IN  /\ IF ~n.ok
           THEN /\ lastCall' = [op |-> "resolve", raw |-> raw, ok |-> FALSE,
                                error |-> n.error]
                /\ UNCHANGED pendingStat
           ELSE LET asFile == indexGetEntry(index, n.path)
                    item   == IF asFile # NoEntry THEN asFile
                              ELSE indexGetEntry(index, appendTrailingSlash(n.path))
                IN  /\ Len(pendingStat) < MaxResolves
                    /\ pendingStat' = Append(pendingStat, [raw |-> raw, item |-> item])
                    /\ lastCall' = [op |-> "resolve", raw |-> raw, ok |-> TRUE,
                                    item |-> item]
        /\ lastCb' = NoCb /\ handled' = << >> /\ events' = << >>
        /\ UNCHANGED << impl, entries, index, roots, watchedRoots, watchRequests,
                        activeChangeCount, externalChanges, pendingReaddir, changeLog,
                        liveHandles, allHandles >>

\* A variant in which the stat's error is ignored.
statNeverFails(result) == FALSE

\* if (err) in the callback of the stat that resolve issued.
statFailed(result) == result # NoError

\* The stat issued by resolve calls back with an error, or with a stat that
\* says whether the path is a file and carries its modification time.
StatCalledBack(k, result, isFile, mtime) ==
    /\ k \in 1..Len(pendingStat)
    /\ pendingStat' = [j \in 1..(Len(pendingStat) - 1) |->
                          IF j < k THEN pendingStat[j] ELSE pendingStat[j + 1]]
    /\ LET req == pendingStat[k]
       IN  IF statFailed(result)
           THEN \* callback(err)
                /\ lastCb' = [kind |-> "resolve", raw |-> req.raw, err |-> result,
                              entry |-> NoEntry, indexBefore |-> index,
                              item |-> req.item, stat |-> result]
                /\ lastCall' = NoCall
                /\ UNCHANGED << entries, index, liveHandles, allHandles >>
           ELSE IF req.item # NoEntry
           THEN \* callback(null, item, stat)
                /\ entries' = adoptStat(entries, req.item, mtime)
                /\ lastCb' = [kind |-> "resolve", raw |-> req.raw, err |-> NoError,
                              entry |-> req.item, indexBefore |-> index,
                              item |-> req.item, stat |-> result]
                /\ lastCall' = NoCall
                /\ allHandles' = allHandles \cup { << entries[req.item].fullPath, req.item >> }
                /\ UNCHANGED << index, liveHandles >>
           ELSE \* item = stat.isFile ? getFileForPath(path) : getDirectoryForPath(path)
                LET r == getEntryForPath(~isFile, req.raw)
                IN  /\ Len(r.entries) <= MaxEntries
                    /\ entries' = IF r.ok THEN adoptStat(r.entries, r.result, mtime)
                                  ELSE r.entries
                    /\ index' = r.index
                    /\ returned(~isFile, req.raw, r)
                    /\ lastCb' = [kind |-> "resolve", raw |-> req.raw, err |-> NoError,
                                  entry |-> IF r.ok THEN r.result ELSE NoEntry,
                                  indexBefore |-> index,
                                  item |-> req.item, stat |-> result]
    /\ handled' = << >> /\ events' = << >>
    /\ UNCHANGED << impl, roots, watchedRoots, watchRequests, activeChangeCount,
                    externalChanges, pendingReaddir, changeLog >>

(***************************************************************************)
(* _watchOrUnwatchEntry and the callbacks of watch and unwatch             *)
(***************************************************************************)
\* The history of the order in which the reported changes fired their event:
\* fired is 0 until the change's event fires, then its rank among the events,
\* and entry is the entry the event is fired for.
RECURSIVE markFired(_, _)
markFired(log, evs) ==
    IF evs = << >> THEN log
    ELSE LET id   == Head(evs).by
             rank == Cardinality({ c \in DOMAIN log : log[c].fired # 0 }) + 1
         IN  markFired(IF id \in DOMAIN log /\ log[id].fired = 0
                       THEN [log EXCEPT ![id].fired = rank,
                                        ![id].entry = Head(evs).entry,
                                        ![id].fires = @ + 1]
                       ELSE IF id \in DOMAIN log
                       THEN [log EXCEPT ![id].fires = @ + 1]
                       ELSE log,
                       Tail(evs))

\* The part of the state a watch/unwatch callback reads and writes.
WatchState(ents, idx, rts, wr) ==
    [entries |-> ents, index |-> idx, roots |-> rts, watchedRoots |-> wr,
     pendingReaddir |-> pendingReaddir, events |-> << >>, changeLog |-> changeLog]

\* The callback _handleExternalChange gives to _handleDirectoryChange, applied
\* to (added, removed) for the reload read: entry._stat = stat, then
\* this._fireChangeEvent(entry, added, removed).
directoryChanged(st, read) ==
    LET event == [entry |-> read.dir, by |-> read.by,
                  added |-> read.added, removed |-> read.removed]
    IN  [st EXCEPT !.entries[read.dir].stat = read.stat,
                   !.events = Append(@, event),
                   !.changeLog = markFired(@, << event >>),
                   \* the reload's closure is kept while callbacks are outstanding
                   !.pendingReaddir =
                       IF read.counter > 0
                       THEN [j \in 1..Len(@) |-> IF @[j].by = read.by THEN read ELSE @[j]]
                       ELSE SelectSeq(@, LAMBDA r : r.by # read.by)]

\* A variant of the countdown that calls back on every completion.
countdownDone(counter) == TRUE

\* if (--counter === 0)
countdownReached(counter) == counter - 1 = 0

\* watchOrUnwatchCallback of _handleDirectoryChange for the change id.
childDone(st, id) ==
    LET k    == CHOOSE j \in 1..Len(st.pendingReaddir) : st.pendingReaddir[j].by = id
        read == st.pendingReaddir[k]
    IN  IF countdownReached(read.counter)
        THEN directoryChanged(st, [read EXCEPT !.counter = @ - 1])
        ELSE [st EXCEPT !.pendingReaddir[k].counter = @ - 1]

\* What the callback given to _watchEntry/_unwatchEntry does when called with err.
\* For an unwatch, _unwatchEntry first clears the cached data under the entry.
runCallback(req, err, st) ==
    LET fullPath == st.entries[req.entry].fullPath
        ents     == IF req.shouldWatch THEN st.entries
                    ELSE clearCachedUnder(st.entries, st.index, fullPath)
        called   == [kind |-> req.cb, entry |-> req.entry, root |-> req.root,
                     path |-> fullPath, err |-> err, sawError |-> req.sawError,
                     registryBefore |-> st.watchedRoots, threw |-> FALSE]
    IN  CASE req.cb = "watch" ->
               IF err # NoError
               THEN [st EXCEPT !.entries = ents,
                               !.watchedRoots = registryDelete(st.watchedRoots, fullPath)]
                    @@ [called |-> called]
               ELSE [st EXCEPT !.entries = ents, !.roots[req.root].active = TRUE]
                    @@ [called |-> called]
          [] req.cb = "unwatch" ->
               [st EXCEPT !.entries = ents,
                          !.watchedRoots = registryDelete(st.watchedRoots, fullPath),
                          !.index = indexRemoveUnder(st.index, fullPath)]
               @@ [called |-> called]
          [] req.cb = "directoryChange" ->
               childDone([st EXCEPT !.entries = ents], req.change)
               @@ [called |-> called]
          [] OTHER ->   \* "unwatchAll": console.warn only
               [st EXCEPT !.entries = ents] @@ [called |-> called]

\* _watchOrUnwatchEntry(entry, watchedRoot, callback, shouldWatch): either the
\* callback is called at once (a non-root entry on a recursive backend) or a
\* request is enqueued.
\* A variant that enqueues a request for every entry.
neverAtOnce(entry, rootEntry) == FALSE

callsBackAtOnce(entry, rootEntry) == impl.recursiveWatch /\ entry # rootEntry


(***************************************************************************)
(* watch and unwatch                                                       *)
(***************************************************************************)
\* (watchingChildRoot && watchingChildRoot.active): watchingChildRoot is the
\* boolean Array.prototype.some returns, and a boolean has no property
\* "active", so the conjunction is never truthy.
activePropertyOfBoolean == FALSE

watchingChildRoot(fullPath) ==
    \E i \in 1..Len(watchedRoots) :
        startsWith(entries[roots[watchedRoots[i].root].entry].fullPath, fullPath)

hasActiveStrictPrefixRoot(fullPath) ==
    \E i \in 1..Len(watchedRoots) :
        /\ roots[watchedRoots[i].root].active
        /\ watchedRoots[i].path # fullPath
        /\ startsWith(fullPath, watchedRoots[i].path)

hasActiveStrictDescendantRoot(fullPath) ==
    \E i \in 1..Len(watchedRoots) :
        /\ roots[watchedRoots[i].root].active
        /\ watchedRoots[i].path # fullPath
        /\ startsWith(watchedRoots[i].path, fullPath)

WatchCall(e, failed) ==
    [op |-> "watch", entry |-> e, path |-> entries[e].fullPath,
     parentActive |-> hasActiveStrictPrefixRoot(entries[e].fullPath),
     childActive |-> hasActiveStrictDescendantRoot(entries[e].fullPath),
     registered |-> ~failed, enqueued |-> ~failed]

Watch(e) ==
    LET fullPath           == entries[e].fullPath
        watchingParentRoot == findWatchedRootForPath(fullPath)
        rid                == Len(roots) + 1
        fail(msg)          ==
            /\ lastCb' = [kind |-> "watch", entry |-> e, root |-> NoRoot,
                          path |-> fullPath, err |-> msg, sawError |-> FALSE,
                          registryBefore |-> watchedRoots, threw |-> FALSE]
            /\ lastCall' = WatchCall(e, TRUE)
            /\ UNCHANGED << roots, watchedRoots, watchRequests >>
    IN  /\ e \in 1..Len(entries)
        /\ IF watchingParentRoot # NoRoot /\ roots[watchingParentRoot].active
           THEN fail(ParentWatched)
           ELSE IF watchingChildRoot(fullPath) /\ activePropertyOfBoolean
           THEN fail(ChildWatched)
           ELSE /\ Len(roots) < MaxRoots
                /\ Len(watchRequests) < MaxRequests
                /\ roots' = Append(roots, [entry |-> e, active |-> FALSE])
                /\ watchedRoots' = registrySet(watchedRoots, fullPath, rid)
                \* _watchEntry(entry, watchedRoot, ...): entry is watchedRoot.entry
                /\ watchRequests' = enqueueWatchRequest(watchRequests,
                                        NewRequest(TRUE, e, rid, "watch"))
                /\ lastCb' = NoCb
                /\ lastCall' = WatchCall(e, FALSE)
        /\ handled' = << >> /\ events' = << >>
        /\ UNCHANGED << impl, entries, index, activeChangeCount, externalChanges,
                        pendingReaddir, changeLog, liveHandles, allHandles, pendingStat >>

Unwatch(e) ==
    LET fullPath    == entries[e].fullPath
        watchedRoot == registryGet(watchedRoots, fullPath)
        inactive    == [roots EXCEPT ![watchedRoot].active = FALSE]
        req         == NewRequest(FALSE, e, watchedRoot, "unwatch")
        done        == runCallback(req, NoError,
                           WatchState(entries, index, inactive, watchedRoots))
    IN  /\ e \in 1..Len(entries)
        /\ lastCall' = [op |-> "unwatch", entry |-> e, path |-> fullPath]
        /\ IF watchedRoot = NoRoot
           THEN /\ lastCb' = [kind |-> "unwatch", entry |-> e, root |-> NoRoot,
                              path |-> fullPath, err |-> NotWatched, sawError |-> FALSE,
                              registryBefore |-> watchedRoots, threw |-> FALSE]
                /\ UNCHANGED << entries, index, roots, watchedRoots, watchRequests,
                                liveHandles >>
           ELSE IF callsBackAtOnce(e, roots[watchedRoot].entry)
           THEN /\ entries' = done.entries
                /\ index' = done.index
                /\ roots' = done.roots
                /\ watchedRoots' = done.watchedRoots
                /\ lastCb' = done.called
                /\ liveHandles' = keptHandles(liveHandles, index, done.index)
                /\ UNCHANGED watchRequests
           ELSE /\ Len(watchRequests) < MaxRequests
                /\ roots' = inactive
                /\ watchRequests' = enqueueWatchRequest(watchRequests, req)
                /\ lastCb' = NoCb
                /\ UNCHANGED << entries, index, watchedRoots, liveHandles >>
        /\ handled' = << >> /\ events' = << >>
        /\ UNCHANGED << impl, activeChangeCount, externalChanges, pendingReaddir,
                        changeLog, allHandles, pendingStat >>

(***************************************************************************)
(* The backend calling back                                                *)
(***************************************************************************)
\* A variant without the finally: a callback that throws leaves the head,
\* whose work is done, in the queue.
shiftUnlessThrown(queue, threw) ==
    IF threw THEN [queue EXCEPT ![1].phase = "done"]
    ELSE dequeueWatchRequest(Tail(queue))

\* finally { this._watchRequests.shift(); this._dequeueWatchRequest(); }
\* runs whether or not request.cb threw.
finallyShift(queue, threw) == dequeueWatchRequest(Tail(queue))

\* The continuation _dequeueWatchRequest hands to request.fn: apply the
\* request's callback, then (finally) shift the queue and start the next.
\* The caller's callback is the last statement of the callbacks of watch and
\* unwatch, so when it throws (throws) their assignments have been made; the
\* callback of _unwatchAll calls no caller's function.
continuation(req, err, throws) ==
    \E done \in { runCallback(req, err,
                      WatchState(entries, index, roots, watchedRoots)) } :
        /\ throws => req.cb \in { "watch", "unwatch" }
        /\ pendingReaddir' = done.pendingReaddir
        /\ events' = done.events
        /\ changeLog' = done.changeLog
        /\ entries' = done.entries
        /\ index' = done.index
        /\ roots' = done.roots
        /\ watchedRoots' = done.watchedRoots
        /\ lastCb' = [done.called EXCEPT !.threw = throws]
        /\ liveHandles' = keptHandles(liveHandles, index, done.index)
        /\ watchRequests' = finallyShift(watchRequests, throws)

\* The backend calls back one watchPath/unwatchPath call of request i.
BackendCallsBack(i, result, throws) ==
    /\ i \in 1..Len(watchRequests)
    /\ watchRequests[i].phase = "calls"
    /\ LET req == [watchRequests[i] EXCEPT !.count = @ - 1,
                                           !.sawError = @ \/ result # NoError]
       IN  IF impl.recursiveWatch
           THEN continuation(req, result, throws)  \* requestCb is the backend's callback
           ELSE \* watchOrUnwatchCallback: if (--count === 0) requestCb(null)
                IF req.count = 0
                THEN continuation(req, NoError, throws)
                ELSE /\ ~throws
                     /\ watchRequests' = [watchRequests EXCEPT ![i] = req]
                     /\ lastCb' = NoCb /\ events' = << >>
                     /\ UNCHANGED << entries, index, roots, watchedRoots, liveHandles,
                                     pendingReaddir, changeLog >>
    /\ lastCall' = NoCall /\ handled' = << >>
    /\ UNCHANGED << impl, activeChangeCount, externalChanges, allHandles, pendingStat >>

\* entry.visit(visitor, callback) calls back: with an error, or having
\* collected n entries to watch or unwatch (those the root's filter accepts
\* that are directories or the root entry itself; the filter is the caller's
\* predicate, so n is any number from 0).
visitCallback(i, result, n, throws, call) ==
    /\ ~impl.recursiveWatch
    /\ i \in 1..Len(watchRequests)
    /\ watchRequests[i].phase = "visit"
    /\ IF result # NoError
       THEN /\ n = 0
            /\ continuation([watchRequests[i] EXCEPT !.sawError = TRUE], result, throws)
       ELSE IF n = 0
       THEN continuation(watchRequests[i], NoError, throws)
       ELSE /\ ~throws
            /\ watchRequests' = [watchRequests EXCEPT ![i].phase = "calls",
                                                      ![i].count = n]
            /\ lastCb' = NoCb /\ events' = << >>
            /\ UNCHANGED << entries, index, roots, watchedRoots, liveHandles,
                            pendingReaddir, changeLog >>
    /\ lastCall' = call /\ handled' = << >>
    /\ UNCHANGED << impl, activeChangeCount, externalChanges, allHandles, pendingStat >>

VisitCallsBack(i, result, n, throws) == visitCallback(i, result, n, throws, NoCall)

\* The same with callers' callbacks that return normally.
BackendCalledBack(i, result) == BackendCallsBack(i, result, FALSE)

VisitCalledBack(i, result, n) == VisitCallsBack(i, result, n, FALSE)

(***************************************************************************)
(* The change coordinator and _handleExternalChange                        *)
(***************************************************************************)
\* The part of the state _handleExternalChange reads and writes, with the
\* histories it extends.
ChangeState(ents, reads, hs, evs) ==
    [entries |-> ents, pendingReaddir |-> reads, handled |-> hs, events |-> evs,
     thrown |-> FALSE]

\* A variant that takes every reported stat to be out of date.
alwaysOutOfDate(stat, cached) == TRUE

\* !(stat && entry._stat && stat.mtime.getTime() === entry._stat.mtime.getTime())
statOutOfDate(stat, cached) ==
    ~(stat # NoStat /\ cached # NoStat /\ stat = cached)

\* _handleExternalChange(info.path, info.stat), invoked while
\* _activeChangeCount has the value count.
handleExternalChange(info, count, idx, cs) ==
    LET n     == normalizePath(info.path, FALSE)
        entry == IF info.path # NoPath /\ n.ok THEN indexGetEntry(idx, n.path)
                 ELSE NoEntry
        rec   == [id |-> info.id, path |-> info.path, stat |-> info.stat,
                  count |-> count, entry |-> entry,
                  isFile |-> (entry # NoEntry /\ cs.entries[entry].isFile),
                  cached |-> IF entry # NoEntry THEN cs.entries[entry].stat ELSE NoStat,
                  contents |-> IF entry # NoEntry THEN cs.entries[entry].contents
                               ELSE NoContents,
                  withCachedData |->
                      { idx[p] : p \in { q \in DOMAIN idx :
                                            cs.entries[idx[q]] # clearCachedData(cs.entries[idx[q]]) } }]
        cs1   == [cs EXCEPT !.handled = Append(@, rec)]
    IN  IF info.path = NoPath
        THEN \* a "wholesale" change
             [cs1 EXCEPT !.entries = clearCachedUnder(cs.entries, idx, << >>),
                         !.events = Append(@, [entry |-> NoEntry, by |-> info.id])]
        ELSE IF ~n.ok THEN [cs1 EXCEPT !.thrown = TRUE]
        ELSE IF entry = NoEntry THEN cs1
        ELSE IF cs.entries[entry].isFile
        THEN IF statOutOfDate(info.stat, cs.entries[entry].stat)
             THEN [cs1 EXCEPT !.entries[entry] =
                                  [clearCachedData(@) EXCEPT !.stat = info.stat],
                              !.events = Append(@, [entry |-> entry, by |-> info.id])]
             ELSE cs1
        ELSE \* _handleDirectoryChange: directory._clearCachedData(), then
             \* directory.getContents(...) which calls back later
             [cs1 EXCEPT !.entries[entry] = clearCachedData(@),
                         !.pendingReaddir =
                             Append(@, [dir |-> entry, stat |-> info.stat, by |-> info.id,
                                        old |-> cs.entries[entry].contents.children,
                                        counter |-> 0, added |-> << >>,
                                        removed |-> << >>])]

\* this._externalChanges.forEach(...): an exception ends the loop
RECURSIVE forEachExternalChange(_, _, _, _)
forEachExternalChange(queue, count, idx, cs) ==
    IF queue = << >> \/ cs.thrown THEN cs
    ELSE forEachExternalChange(Tail(queue), count, idx,
             handleExternalChange(Head(queue), count, idx, cs))

\* A variant that drains the queue whatever the count is.
triggersAlways(count) == TRUE

\* if (!this._activeChangeCount) this._triggerExternalChangesNow()
triggersNow(count) == count = 0

\* The history of how often each reported change was handled.
countHandled(log, hs) ==
    [id \in DOMAIN log |->
        [log[id] EXCEPT
            !.times = @ + Cardinality({ k \in 1..Len(hs) : hs[k].id = id })]]

\* _triggerExternalChangesNow, if count allows it, on the queue given
triggerExternalChanges(queue, count, log) ==
    \* the loop runs once; cs is its outcome
    \E cs \in { forEachExternalChange(queue, count, index,
                    ChangeState(entries, pendingReaddir, << >>, << >>)) } :
        IF triggersNow(count)
        THEN /\ entries' = cs.entries
             /\ pendingReaddir' = cs.pendingReaddir
             /\ handled' = cs.handled
             /\ events' = cs.events
             \* this._externalChanges.length = 0, unless the loop threw
             /\ externalChanges' = IF cs.thrown THEN queue ELSE << >>
             /\ changeLog' = markFired(countHandled(log, cs.handled), cs.events)
        ELSE /\ externalChanges' = queue
             /\ changeLog' = log
             /\ handled' = << >> /\ events' = << >>
             /\ UNCHANGED << entries, pendingReaddir >>

BeginChange ==
    /\ activeChangeCount < MaxActive
    /\ activeChangeCount' = activeChangeCount + 1
    /\ lastCall' = [op |-> "beginChange"]
    /\ lastCb' = NoCb /\ handled' = << >> /\ events' = << >>
    /\ UNCHANGED << impl, entries, index, roots, watchedRoots, watchRequests,
                    externalChanges, pendingReaddir, changeLog, liveHandles,
                    allHandles, pendingStat >>

EndChange ==
    /\ activeChangeCount > -MaxUnderflow
    /\ activeChangeCount' = activeChangeCount - 1
    /\ triggerExternalChanges(externalChanges, activeChangeCount - 1,
           [id \in DOMAIN changeLog |->
               [changeLog[id] EXCEPT !.released = @ \/ activeChangeCount - 1 = 0]])
    /\ lastCall' = [op |-> "endChange"]
    /\ lastCb' = NoCb
    /\ UNCHANGED << impl, index, roots, watchedRoots, watchRequests, liveHandles,
                    allHandles, pendingStat >>

\* The backend's watcher callback reports a change.
EnqueueExternalChange(path, stat) ==
    LET id   == Len(changeLog) + 1
        info == [id |-> id, path |-> path, stat |-> stat]
    IN  /\ Len(changeLog) < MaxChanges
        /\ triggerExternalChanges(Append(externalChanges, info), activeChangeCount,
               Append(changeLog, [deferred |-> activeChangeCount > 0,
                                  released |-> FALSE, times |-> 0,
                                  fired |-> 0, entry |-> NoEntry,
                                  fires |-> 0, reloaded |-> FALSE]))
        /\ lastCall' = [op |-> "enqueueExternalChange", id |-> id]
        /\ lastCb' = NoCb
        /\ UNCHANGED << impl, index, roots, watchedRoots, watchRequests,
                        activeChangeCount, liveHandles, allHandles, pendingStat >>

Range(seq) == { seq[i] : i \in 1..Len(seq) }

\* The indexed entries that are children of the directory d, and the
\* listings getContents can call back with: the children the backend reports
\* and the index filter lets through, in the backend's order.
isChildPath(child, dir) ==
    /\ startsWith(child, dir)
    /\ Len(child) > Len(dir)
    /\ \A i \in (Len(dir) + 1)..(Len(child) - 1) : child[i] # "/"

childrenOf(d) ==
    { index[p] : p \in { q \in DOMAIN index :
                            isChildPath(q, entries[d].fullPath) } }

Listings(d) ==
    { l \in UNION { [1..n -> childrenOf(d)] : n \in 0..Cardinality(childrenOf(d)) } :
          \A i, j \in 1..Len(l) : i # j => l[i] # l[j] }

\* The removedEntries.forEach of the unwatched case: clear the cached data
\* of every indexed entry under a removed entry.
RECURSIVE clearCachedUnderEach(_, _, _)
clearCachedUnderEach(ents, idx, removed) ==
    IF removed = << >> THEN ents
    ELSE clearCachedUnderEach(clearCachedUnder(ents, idx, ents[Head(removed)].fullPath),
                              idx, Tail(removed))

\* addedEntries.forEach(_watchEntry) or removedEntries.forEach(_unwatchEntry)
\* with watchOrUnwatchCallback, for the change id: _watchOrUnwatchEntry calls
\* back at once or enqueues a request.
RECURSIVE watchOrUnwatchEach(_, _, _, _, _)
watchOrUnwatchEach(list, shouldWatch, watchedRoot, id, st) ==
    IF list = << >> THEN st
    ELSE LET entry   == Head(list)
             cleared == IF shouldWatch THEN st.entries
                        ELSE clearCachedUnder(st.entries, st.index,
                                              st.entries[entry].fullPath)
             req     == [NewRequest(shouldWatch, entry, watchedRoot, "directoryChange")
                            EXCEPT !.change = id]
         IN  watchOrUnwatchEach(Tail(list), shouldWatch, watchedRoot, id,
                 IF callsBackAtOnce(entry, st.roots[watchedRoot].entry)
                 THEN childDone([st EXCEPT !.entries = cleared], id)
                 ELSE [st EXCEPT !.watchRequests = enqueueWatchRequest(@, req)])

\* directory.getContents calls back in _handleDirectoryChange, for the reload
\* k that has not been called back yet (its counter is still 0).  With an
\* error the callback is given either no contents (defined is false), and
\* contents.filter throws, or an empty array; without an error it is given
\* the directory's new contents, which the directory caches.  accepted is
\* what the watched root's filter says of the directory.
ReaddirCalledBack(k, err, defined, contents, accepted) ==
    /\ k \in 1..Len(pendingReaddir)
    /\ pendingReaddir[k].counter = 0
    /\ err = NoError => defined
    /\ err # NoError => contents = << >>
    /\ LET read        == pendingReaddir[k]
           added       == SelectSeq(contents, LAMBDA e : e \notin Range(read.old))
           removed     == SelectSeq(read.old, LAMBDA e : e \notin Range(contents))
           watchedRoot == findWatchedRootForPath(entries[read.dir].fullPath)
           diffed      == [read EXCEPT !.added = added, !.removed = removed]
           counted     == [diffed EXCEPT !.counter = Len(added) + Len(removed)]
           reloaded    == IF err = NoError
                          THEN [entries EXCEPT ![read.dir].contents = Cached(contents)]
                          ELSE entries
           st          == [WatchState(reloaded, index, roots, watchedRoots)
                              EXCEPT !.pendingReaddir[k] = counted]
                          @@ [watchRequests |-> watchRequests]
       IN  \E done \in {
               IF ~defined
               THEN \* TypeError: contents is undefined
                    [st EXCEPT !.pendingReaddir = SelectSeq(@, LAMBDA r : r.by # read.by)]
               ELSE IF watchedRoot = NoRoot \/ ~accepted
               THEN directoryChanged(
                        [st EXCEPT !.entries = clearCachedUnderEach(@, index, removed)],
                        diffed)
               ELSE IF counted.counter = 0
               THEN directoryChanged(st, counted)
               ELSE watchOrUnwatchEach(removed, FALSE, watchedRoot, read.by,
                        watchOrUnwatchEach(added, TRUE, watchedRoot, read.by, st)) } :
           /\ Len(done.watchRequests) <= MaxRequests
           /\ entries' = done.entries
           /\ events' = done.events
           \* history: the reload of this change has delivered contents
           /\ changeLog' = [done.changeLog EXCEPT ![read.by].reloaded = defined]
           /\ pendingReaddir' = done.pendingReaddir
           /\ watchRequests' = done.watchRequests
           /\ lastCall' = [op |-> "readdir", dir |-> read.dir, by |-> read.by,
                           err |-> err, defined |-> defined, old |-> read.old,
                           contents |-> contents, added |-> added, removed |-> removed,
                           watched |-> (watchedRoot # NoRoot /\ accepted)]
    /\ lastCb' = NoCb /\ handled' = << >>
    /\ UNCHANGED << impl, index, roots, watchedRoots, activeChangeCount,
                    externalChanges, liveHandles, allHandles, pendingStat >>

\* A caller's file.read calls back: the text and the stat are cached.
ReadCalledBack(e, mtime) ==
    /\ \E p \in DOMAIN index : index[p] = e
    /\ entries[e].isFile
    /\ entries' = [entries EXCEPT ![e].stat = mtime, ![e].contents = Cached(<< >>)]
    /\ lastCall' = [op |-> "read", entry |-> e]
    /\ lastCb' = NoCb /\ handled' = << >> /\ events' = << >>
    /\ UNCHANGED << impl, index, roots, watchedRoots, watchRequests,
                    activeChangeCount, externalChanges, pendingReaddir, changeLog,
                    liveHandles, allHandles, pendingStat >>

\* A caller's directory.getContents calls back: the contents are cached.
GetContentsCalledBack(d, contents) ==
    /\ \E p \in DOMAIN index : index[p] = d
    /\ ~entries[d].isFile
    /\ entries' = [entries EXCEPT ![d].contents = Cached(contents)]
    /\ lastCall' = [op |-> "getContents", entry |-> d]
    /\ lastCb' = NoCb /\ handled' = << >> /\ events' = << >>
    /\ UNCHANGED << impl, index, roots, watchedRoots, watchRequests,
                    activeChangeCount, externalChanges, pendingReaddir, changeLog,
                    liveHandles, allHandles, pendingStat >>


\* entry.visit(visitor, callback) with the visitor of _watchOrUnwatchEntry:
\* the entry is visited, and the children of every visited directory the
\* visitor returns true for.  The visitor returns what the root's filter
\* says of the child (passes[child]) and collects the child when the filter
\* accepts it and it is a directory or the root's entry.
\* A variant of the visitor's test that collects files as well.
collectsFiles(child, rootEntry) == TRUE

\* child.isDirectory || child === watchedRoot.entry
collects(child, rootEntry) == ~entries[child].isFile \/ child = rootEntry

RECURSIVE entriesToWatchOrUnwatch(_, _, _)
entriesToWatchOrUnwatch(child, rootEntry, passes) ==
    IF ~passes[child] THEN { }
    ELSE (IF collects(child, rootEntry) THEN { child } ELSE { })
         \cup (IF entries[child].isFile THEN { }
               ELSE UNION { entriesToWatchOrUnwatch(c, rootEntry, passes) :
                                c \in childrenOf(child) })

\* The visit of request i calls back, the root's filter being passes.
VisitCollected(i, result, passes) ==
    /\ i \in 1..Len(watchRequests)
    /\ LET req       == watchRequests[i]
           collected == entriesToWatchOrUnwatch(req.entry, roots[req.root].entry,
                                                passes)
       IN  visitCallback(i, result,
               IF result = NoError THEN Cardinality(collected) ELSE 0, FALSE,
               [op |-> "visit", entry |-> req.entry, root |-> req.root,
                err |-> result, passes |-> passes])

\* A caller (Directory.getContents) asks whether path is to be indexed.
IndexFilter(path, accepts) ==
    /\ lastCall' = [op |-> "indexFilter", path |-> path, accepts |-> accepts,
                    parentRoot |-> findWatchedRootForPath(path),
                    result |-> indexFilter(path, accepts)]
    /\ lastCb' = NoCb /\ handled' = << >> /\ events' = << >>
    /\ UNCHANGED << impl, entries, index, roots, watchedRoots, watchRequests,
                    activeChangeCount, externalChanges, pendingReaddir, changeLog,
                    liveHandles, allHandles, pendingStat >>


(***************************************************************************)
(* The backend's offline signal, and close                                 *)
(***************************************************************************)
\* The forEach of _unwatchAll from key i on: every root is unwatched through
\* _unwatchEntry(watchedRoot.entry, watchedRoot, ...), which enqueues a request.
RECURSIVE unwatchEach(_, _)
unwatchEach(queue, i) ==
    IF i > Len(watchedRoots) THEN queue
    ELSE unwatchEach(
             enqueueWatchRequest(queue,
                 NewRequest(FALSE, roots[watchedRoots[i].root].entry,
                            watchedRoots[i].root, "unwatchAll")),
             i + 1)

\* A variant of the forEach that deletes no key.
deleteNone(wr, i) == wr

\* The forEach of _unwatchAll from key i on: delete this._watchedRoots[path].
RECURSIVE deleteEach(_, _)
deleteEach(wr, i) ==
    IF i > Len(watchedRoots) THEN wr
    ELSE deleteEach(registryDelete(wr, watchedRoots[i].path), i + 1)

Offline ==
    LET registered == { watchedRoots[i].root : i \in 1..Len(watchedRoots) }
        emptied    == deleteEach(watchedRoots, 1)
        cs == handleExternalChange([id |-> 0, path |-> NoPath, stat |-> NoStat],
                  activeChangeCount, index,
                  ChangeState(entries, pendingReaddir, << >>, << >>))
    IN  /\ Len(watchRequests) + Len(watchedRoots) <= MaxRequests
        /\ roots' = [r \in DOMAIN roots |->
                        IF r \in registered THEN [roots[r] EXCEPT !.active = FALSE]
                        ELSE roots[r]]
        /\ watchedRoots' = emptied
        /\ watchRequests' = unwatchEach(watchRequests, 1)
        \* this._handleExternalChange(null)
        /\ entries' = cs.entries
        /\ handled' = cs.handled
        /\ events' = cs.events
        \* the registry the observers of the wholesale event find
        /\ lastCall' = [op |-> "offline", registryAtEvent |-> emptied]
        /\ lastCb' = NoCb
        /\ UNCHANGED << impl, index, activeChangeCount, externalChanges,
                        pendingReaddir, changeLog, liveHandles, allHandles, pendingStat >>

Close ==
    \* this._impl.unwatchAll() is the backend's business: the registry, the
    \* root records and the request queue are not touched.
    /\ index' = EmptyIndex           \* this._index.clear()
    /\ liveHandles' = keptHandles(liveHandles, index, EmptyIndex)
    /\ lastCall' = [op |-> "close"]
    /\ lastCb' = NoCb /\ handled' = << >> /\ events' = << >>
    /\ UNCHANGED << impl, entries, roots, watchedRoots, watchRequests,
                    activeChangeCount, externalChanges, pendingReaddir, changeLog,
                    allHandles, pendingStat >>

(***************************************************************************)
(* The specification                                                       *)
(***************************************************************************)
Init ==
    /\ impl \in Impls
    /\ entries = << >>
    /\ index = EmptyIndex
    /\ roots = << >>
    /\ watchedRoots = << >>
    /\ watchRequests = << >>
    /\ activeChangeCount = 0
    /\ externalChanges = << >>
    /\ pendingReaddir = << >>
    /\ pendingStat = << >>
    /\ changeLog = << >>
    /\ handled = << >>
    /\ events = << >>
    /\ lastCall = NoCall
    /\ lastCb = NoCb
    /\ liveHandles = { }
    /\ allHandles = { }

\* A backend that does not declare normalizeUNCPaths.
InitNoUNC == Init /\ ~impl.normalizeUNCPaths

\* Watched roots over two nested directories, with the offline signal.
WatchRaw == { P_root, P_a }

Next ==
    \/ \E raw \in WatchRaw : GetDirectoryForPath(raw) /\ Len(entries') <= FewEntries
    \/ \E e \in 1..MaxEntries : Watch(e)
    \/ \E e \in 1..MaxEntries : Unwatch(e)
    \/ \E i \in 1..MaxRequests, result \in BackendResults : BackendCalledBack(i, result)
    \/ \E i \in 1..MaxRequests, result \in BackendResults, n \in 0..MaxVisit :
           VisitCalledBack(i, result, n)
    \/ Offline

Spec == InitNoUNC /\ [][Next]_vars

\* The request queue alone: every watch and unwatch is of the one directory.
QueueRaw == { P_root }

NextQueue ==
    \/ \E raw \in QueueRaw : GetDirectoryForPath(raw) /\ Len(entries') <= QueueEntries
    \/ \E e \in 1..MaxEntries : Watch(e)
    \/ \E e \in 1..MaxEntries : Unwatch(e)
    \/ \E i \in 1..MaxRequests, result \in BackendResults, throws \in BOOLEAN :
           BackendCallsBack(i, result, throws)
    \/ \E i \in 1..MaxRequests, result \in BackendResults, n \in 0..MaxVisit,
          throws \in BOOLEAN :
           VisitCallsBack(i, result, n, throws)
    \/ Offline

SpecQueue == InitNoUNC /\ [][NextQueue]_vars

\* The queue with a backend that calls back every watchPath, unwatchPath and
\* visit (readdir) call it has received.
BackendCallsBackEventually ==
    /\ WF_vars(\E i \in 1..MaxRequests, result \in BackendResults, throws \in BOOLEAN :
                   BackendCallsBack(i, result, throws))
    /\ WF_vars(\E i \in 1..MaxRequests, result \in BackendResults, n \in 0..MaxVisit,
                 throws \in BOOLEAN :
                   VisitCallsBack(i, result, n, throws))

SpecQueueFair == SpecQueue /\ BackendCallsBackEventually

\* Interning: inputs that normalize to the same path, an input that does not
\* normalize, resolve, and the two ways an entry leaves the index (a
\* completed unwatch and close).
FileRaw  == { P_af, P_rel }
DirRaw   == { P_a, P_aUPa }
IndexRaw == { P_af, P_a }

NextIndex ==
    \/ \E raw \in FileRaw : GetFileForPath(raw) /\ Len(entries') <= FewEntries
    \/ \E raw \in DirRaw : GetDirectoryForPath(raw) /\ Len(entries') <= FewEntries
    \/ \E raw \in IndexRaw : Resolve(raw)
    \/ \E k \in 1..MaxResolves, result \in BackendResults, isFile \in BOOLEAN :
           StatCalledBack(k, result, isFile, 1) /\ Len(entries') <= FewEntries
    \/ \E e \in 1..MaxEntries : Watch(e) /\ Len(roots') <= IndexRoots
    \/ \E e \in 1..MaxEntries : Unwatch(e) /\ Len(watchRequests') <= IndexRequests
    \/ \E i \in 1..MaxRequests, result \in BackendResults : BackendCalledBack(i, result)
    \/ \E i \in 1..MaxRequests, result \in BackendResults, n \in 0..MaxVisit :
           VisitCalledBack(i, result, n)
    \/ Close

SpecIndex == InitNoUNC /\ [][NextIndex]_vars

\* _normalizePath as a function: every path of up to MaxLen characters made
\* of slashes, dots, a name character and the colon of a drive prefix, as a
\* file and as a directory, on backends with and without normalizeUNCPaths.
PathChars == { "/", ".", "a", ":" }
BoundedPaths == UNION { [1..n -> PathChars] : n \in 0..MaxLen }

\* A caller is about to normalize a path.
InitNormalize ==
    /\ impl \in Impls
    /\ entries = << >> /\ index = EmptyIndex
    /\ roots = << >> /\ watchedRoots = << >> /\ watchRequests = << >>
    /\ activeChangeCount = 0 /\ externalChanges = << >>
    /\ pendingReaddir = << >> /\ pendingStat = << >>
    /\ changeLog = << >> /\ handled = << >> /\ events = << >>
    /\ lastCb = NoCb /\ liveHandles = { } /\ allHandles = { }
    /\ lastCall \in [op : { "input" }, path : BoundedPaths, isDirectory : BOOLEAN]

\* The caller normalizes the path, and normalizes the result again.
NormalizePath ==
    /\ lastCall.op = "input"
    /\ LET result == normalizePath(lastCall.path, lastCall.isDirectory)
       IN  lastCall' = [op |-> "normalizePath", path |-> lastCall.path,
                        isDirectory |-> lastCall.isDirectory, result |-> result,
                        again |-> IF result.ok
                                  THEN normalizePath(result.path, lastCall.isDirectory)
                                  ELSE result]
    /\ UNCHANGED << impl, entries, index, roots, watchedRoots, watchRequests,
                    activeChangeCount, externalChanges, pendingReaddir, pendingStat,
                    changeLog, handled, events, lastCb, liveHandles, allHandles >>

NextNormalize == NormalizePath

SpecNormalize == InitNormalize /\ [][NextNormalize]_vars

\* getFileForPath and getDirectoryForPath alone, on paths with and without a
\* trailing slash, with "..", with a drive prefix, and not absolute.
GetRaw == { P_root, P_a, P_aS, P_SSa, P_aUPa, P_aUP, P_aUPUP, P_up, P_rel,
            P_drive, P_driveUP }

NextGet ==
    \/ \E raw \in GetRaw : GetFileForPath(raw) /\ Len(entries') <= FewEntries
    \/ \E raw \in GetRaw : GetDirectoryForPath(raw) /\ Len(entries') <= FewEntries

\* No root is watched here, so the kind of backend is never read.
InitGet == Init /\ impl.recursiveWatch

SpecGet == InitGet /\ [][NextGet]_vars

\* Construction and init: _impl is null until init(impl) sets it.
NoImpl == [null |-> TRUE]

\* FileSystem.init(b).  console.assert(!this._impl, ...) reports a failed
\* assertion on the console and returns; the statements after it run whether
\* or not a backend was set before.
InitBackend(b) ==
    /\ impl' = b                       \* this._impl = impl
    \* this._impl.initWatchers(changeCallback, offlineCallback)
    /\ lastCall' = [op |-> "init", impl |-> b, before |-> impl,
                    initWatchers |-> b]
    /\ lastCb' = NoCb /\ handled' = << >> /\ events' = << >>
    /\ UNCHANGED << entries, index, roots, watchedRoots, watchRequests,
                    activeChangeCount, externalChanges, pendingReaddir, pendingStat,
                    changeLog, liveHandles, allHandles >>

\* The state the constructor leaves.
InitConstructed ==
    /\ impl = NoImpl
    /\ entries = << >>
    /\ index = EmptyIndex
    /\ roots = << >>
    /\ watchedRoots = << >>
    /\ watchRequests = << >>
    /\ activeChangeCount = 0
    /\ externalChanges = << >>
    /\ pendingReaddir = << >>
    /\ pendingStat = << >>
    /\ changeLog = << >>
    /\ handled = << >>
    /\ events = << >>
    /\ lastCall = NoCall
    /\ lastCb = NoCb
    /\ liveHandles = {}
    /\ allHandles = {}

\* init, and the gets that read _impl.normalizeUNCPaths once it is set.
NextInit ==
    \/ \E b \in Impls : InitBackend(b)
    \/ \E raw \in FileRaw : impl # NoImpl /\ GetFileForPath(raw)
    \/ \E raw \in DirRaw : impl # NoImpl /\ GetDirectoryForPath(raw)

SpecInit == InitConstructed /\ [][NextInit]_vars

\* The change coordinator.
ChangePaths == { NoPath, P_af, P_aS }
ChangeRaw == { P_af }
Stats == 0..MaxMtime

NextChange ==
    \/ \E raw \in ChangeRaw : GetFileForPath(raw)
    \/ \E raw \in { P_a } : GetDirectoryForPath(raw)
    \/ BeginChange
    \/ EndChange
    \/ \E path \in ChangePaths, stat \in Stats :
           \* the wholesale change comes without a stat
           (path = NoPath => stat = NoStat) /\ EnqueueExternalChange(path, stat)
    \/ \E k \in 1..Len(pendingReaddir), err \in BackendResults,
          defined, accepted \in BOOLEAN :
           \E contents \in Listings(pendingReaddir[k].dir) :
               ReaddirCalledBack(k, err, defined, contents, accepted)
    \/ Offline

\* External changes to a watched directory and the file in it: the directory
\* is watched and unwatched on either kind of backend, callers read the file
\* and list the directory, and the backend reports changes of both and
\* wholesale changes, none of them during a change of the caller's.
DirStats == { NoStat, 1 }

NextDir ==
    \* each entry is got once
    \/ \E raw \in ChangeRaw :
           GetFileForPath(raw) /\ Len(entries) < Len(entries') /\ Len(entries') <= FewEntries
    \/ \E raw \in { P_a } :
           GetDirectoryForPath(raw) /\ Len(entries) < Len(entries') /\ Len(entries') <= FewEntries
    \/ \E e \in 1..MaxEntries :
           e \in 1..Len(entries) /\ ~entries[e].isFile /\ Watch(e) /\ Len(roots') <= DirRoots
    \/ \E e \in 1..MaxEntries : Unwatch(e) /\ Len(watchRequests') <= DirRequests
    \/ \E i \in 1..MaxRequests, result \in BackendResults : BackendCalledBack(i, result)
    \/ \E i \in 1..MaxRequests, result \in BackendResults, n \in 0..MaxVisit :
           VisitCalledBack(i, result, n)
    \/ \E e \in 1..MaxEntries : ReadCalledBack(e, 1)
    \/ \E d \in 1..Len(entries) : \E contents \in Listings(d) :
           GetContentsCalledBack(d, contents)
    \/ \E path \in ChangePaths, stat \in DirStats :
           (path = NoPath => stat = NoStat) /\ EnqueueExternalChange(path, stat)
    \/ \E k \in 1..Len(pendingReaddir), err \in BackendResults,
          defined, accepted \in BOOLEAN :
           \E contents \in Listings(pendingReaddir[k].dir) :
               ReaddirCalledBack(k, err, defined, contents, accepted)

SpecDir == InitNoUNC /\ [][NextDir]_vars

\* Reloads of a directory with two files: the directory is watched, on either
\* kind of backend, and the backend reports changes of the directory, whose
\* reloads add and remove the files.
ReloadRaw == { P_af, P_ag }

NextReload ==
    \/ \E raw \in ReloadRaw : GetFileForPath(raw) /\ Len(entries) < Len(entries')
    \/ \E raw \in { P_a } : GetDirectoryForPath(raw) /\ Len(entries) < Len(entries')
    \/ \E e \in 1..MaxEntries :
           e \in 1..Len(entries) /\ ~entries[e].isFile /\ Watch(e) /\ Len(roots') <= DirRoots
    \/ \E i \in 1..MaxRequests, result \in BackendResults : BackendCalledBack(i, result)
    \/ \E i \in 1..MaxRequests, result \in BackendResults, n \in 0..MaxVisit :
           VisitCalledBack(i, result, n)
    \/ EnqueueExternalChange(P_aS, 1)
    \/ \E k \in 1..Len(pendingReaddir), err \in BackendResults,
          defined, accepted \in BOOLEAN :
           \E contents \in Listings(pendingReaddir[k].dir) :
               ReaddirCalledBack(k, err, defined, contents, accepted)

SpecReload == InitNoUNC /\ [][NextReload]_vars

\* The same with a backend that calls back every call it receives and a
\* directory whose getContents calls back.
SpecReloadFair ==
    /\ SpecReload
    /\ WF_vars(\E i \in 1..MaxRequests, result \in BackendResults :
                   BackendCalledBack(i, result))
    /\ WF_vars(\E i \in 1..MaxRequests, result \in BackendResults, n \in 0..MaxVisit :
                   VisitCalledBack(i, result, n))
    /\ WF_vars(\E k \in 1..Len(pendingReaddir), err \in BackendResults,
                  defined, accepted \in BOOLEAN :
                   \E contents \in Listings(pendingReaddir[k].dir) :
                       ReaddirCalledBack(k, err, defined, contents, accepted))

\* The index filter asked about paths in and out of two nested watched
\* directories, while these are watched and unwatched.
FilterPaths == { P_root, P_aS, P_af }

NextFilter ==
    \/ \E raw \in WatchRaw : GetDirectoryForPath(raw) /\ Len(entries') <= FewEntries
    \/ \E e \in 1..MaxEntries : Watch(e) /\ Len(roots') <= FilterRoots
    \/ \E e \in 1..MaxEntries : Unwatch(e)
    \/ \E i \in 1..MaxRequests, result \in BackendResults : BackendCalledBack(i, result)
    \/ \E i \in 1..MaxRequests, result \in BackendResults, n \in 0..MaxVisit :
           VisitCalledBack(i, result, n)
    \/ \E path \in FilterPaths : \E accepts \in [1..Len(roots) -> BOOLEAN] :
           IndexFilter(path, accepts)

SpecFilter == InitNoUNC /\ [][NextFilter]_vars

\* A recursive backend: a directory and its file, the directory watched,
\* unwatched and got again, its contents listed and its changes reported.
InitRecursive == InitNoUNC /\ impl.recursiveWatch

NextRecursive ==
    \/ \E raw \in { P_a } : GetDirectoryForPath(raw) /\ Len(entries) < Len(entries')
    \/ \E raw \in { P_af } : GetFileForPath(raw) /\ Len(entries) < Len(entries')
    \/ \E e \in 1..MaxEntries :
           e \in 1..Len(entries) /\ ~entries[e].isFile /\ Watch(e)
             /\ Len(roots') <= RecursiveRoots
    \/ \E e \in 1..MaxEntries : Unwatch(e)
    \/ \E i \in 1..MaxRequests, result \in BackendResults : BackendCalledBack(i, result)
    \* a directory is listed while it has no cached contents
    \/ \E d \in 1..Len(entries) : \E contents \in Listings(d) :
           ~entries[d].contents.cached /\ GetContentsCalledBack(d, contents)
    \/ EnqueueExternalChange(P_aS, 1) /\ Len(changeLog') <= RecursiveChanges
    \/ \E k \in 1..Len(pendingReaddir), err \in BackendResults,
          defined, accepted \in BOOLEAN :
           \E contents \in Listings(pendingReaddir[k].dir) :
               ReaddirCalledBack(k, err, defined, contents, accepted)

SpecRecursive == InitRecursive /\ [][NextRecursive]_vars

\* A non-recursive backend: the directories "/" and "/a/" and the file
\* "/a/f" are watched and unwatched, and every visit collects the entries the
\* root's filter passes.
InitVisit == InitNoUNC /\ ~impl.recursiveWatch

VisitRaw == { P_root, P_a }

NextVisit ==
    \/ \E raw \in VisitRaw : GetDirectoryForPath(raw) /\ Len(entries) < Len(entries')
    \/ \E raw \in { P_af } : GetFileForPath(raw) /\ Len(entries) < Len(entries')
    \/ \E e \in 1..MaxEntries : Watch(e) /\ Len(roots') <= VisitRoots
    \/ \E e \in 1..MaxEntries : Unwatch(e)
    \/ \E i \in 1..MaxRequests, result \in BackendResults :
           \E passes \in [1..Len(entries) -> BOOLEAN] : VisitCollected(i, result, passes)
    \/ \E i \in 1..MaxRequests, result \in BackendResults : BackendCalledBack(i, result)

SpecVisit == InitVisit /\ [][NextVisit]_vars

\* No root is watched here, so the kind of backend is never read.
InitChange == InitNoUNC /\ impl.recursiveWatch

SpecChange == InitChange /\ [][NextChange]_vars


(***************************************************************************)
(* Claims about the watched-root registry                                  *)
(***************************************************************************)
rootActive(i) == roots[watchedRoots[i].root].active

\* C1: in every reachable state no two active watched roots have paths of
\* which one is a prefix of the other.
C1_ActiveRootsNotNested ==
    \A i, j \in 1..Len(watchedRoots) :
        (i # j /\ rootActive(i) /\ rootActive(j))
            => ~startsWith(watchedRoots[i].path, watchedRoots[j].path)

\* C7: a watch of an entry below an active watched root fails with the
\* parent-already-watched error, enqueues no request and leaves the
\* registry unchanged.
C7_WatchBelowActiveRootFails ==
    (lastCall.op = "watch" /\ lastCall.parentActive)
        => /\ lastCb.kind = "watch"
           /\ lastCb.err = ParentWatched
           /\ ~lastCall.registered
           /\ ~lastCall.enqueued

\* C8: a watch of an entry above an active watched root fails with the
\* child-already-watched error, enqueues no request and leaves the registry
\* unchanged.
C8_WatchAboveActiveRootFails ==
    (lastCall.op = "watch" /\ lastCall.childActive /\ ~lastCall.parentActive)
        => /\ lastCb.kind = "watch"
           /\ lastCb.err = ChildWatched
           /\ ~lastCall.registered
           /\ ~lastCall.enqueued

\* The pruning half of C9: when the callback of unwatch is called for a
\* registered root, the root's path is no key of the registry and no index
\* entry lies under it.
UnwatchPrunes ==
    (lastCb.kind = "unwatch" /\ lastCb.root # NoRoot)
        => /\ lastCb.path \notin registryKeys(watchedRoots)
           /\ \A q \in DOMAIN index : ~startsWith(q, lastCb.path)

\* C9: when the unwatch request of a registered root completes, its callback
\* finds the root gone from the registry and the index pruned under it, and
\* receives the backend's error if the backend reported one.
C9_UnwatchPrunesAndReportsError ==
    (lastCb.kind = "unwatch" /\ lastCb.root # NoRoot)
        => /\ lastCb.path \notin registryKeys(watchedRoots)
           /\ \A q \in DOMAIN index : ~startsWith(q, lastCb.path)
           /\ lastCb.sawError => lastCb.err = BackendError

\* C10: when watch reports an error to its callback, the registry holds no
\* record of that call and every other record is as it was.
C10_FailedWatchLeavesOtherRecords ==
    (lastCb.kind = "watch" /\ lastCb.err # NoError)
        => watchedRoots = SelectSeq(lastCb.registryBefore,
                                    LAMBDA k : k.root # lastCb.root)


(***************************************************************************)
(* Claims about the request queue                                          *)
(***************************************************************************)
started(req) == req.phase # "queued"

sameRequest(r, q) ==
    /\ r.shouldWatch = q.shouldWatch
    /\ r.entry = q.entry
    /\ r.root = q.root
    /\ r.cb = q.cb

\* The head of a non-empty queue is the one request that has been started.
OnlyHeadStarted ==
    \A i \in 1..Len(watchRequests) : started(watchRequests[i]) <=> (i = 1)

\* A step either keeps the queued requests in place (appending new ones), or
\* removes the started head, keeps the others in order and starts none but
\* the new head.
QueueStep ==
    \/ /\ Len(watchRequests') >= Len(watchRequests)
       /\ \A i \in 1..Len(watchRequests) :
              sameRequest(watchRequests'[i], watchRequests[i])
    \/ /\ Len(watchRequests') = Len(watchRequests) - 1
       /\ started(watchRequests[1])
       /\ lastCb'.kind = watchRequests[1].cb
       /\ \A i \in 1..Len(watchRequests') :
              /\ sameRequest(watchRequests'[i], watchRequests[i + 1])
              /\ ~started(watchRequests[i + 1])

\* C6: watch and unwatch requests run serially in submission order: the one
\* started and uncompleted request is the head of the queue, and the next is
\* started only by the step in which the head's continuation runs.
C6_RequestsRunSerially == [](OnlyHeadStarted) /\ [][QueueStep]_vars

\* A continuation has just run and the next of two waiting requests started.
C6_Witness ==
    /\ Len(watchRequests) >= 2
    /\ lastCb.kind \in { "watch", "unwatch" }
    /\ lastCb.root # NoRoot
    /\ started(watchRequests[1])
    /\ ~started(watchRequests[2])


(***************************************************************************)
(* Claims about the change coordinator                                     *)
(***************************************************************************)
\* C2: _handleExternalChange is never invoked while _activeChangeCount > 0.
C2_NotHandledDuringChange ==
    \A k \in 1..Len(handled) : ~(handled[k].count > 0)

eventsBy(id) == { j \in 1..Len(events) : events[j].by = id }

\* C3: a change enqueued while _activeChangeCount > 0 is not handled and
\* fires no event until an endChange brings the count to zero; from then on
\* it has been handled exactly once; and when it is handled for an indexed
\* file whose cached stat does not match, exactly one change event, for that
\* file, is fired for it.
C3_DeferredChangeHandledOnce ==
    /\ \A id \in DOMAIN changeLog :
          changeLog[id].deferred =>
              IF changeLog[id].released
              THEN changeLog[id].times = 1
              ELSE changeLog[id].times = 0 /\ eventsBy(id) = { }
    /\ \A k \in 1..Len(handled) :
          LET h == handled[k]
          IN  (/\ h.id # 0
               /\ changeLog[h.id].deferred
               /\ h.entry # NoEntry
               /\ h.isFile
               /\ ~(h.stat # NoStat /\ h.cached # NoStat /\ h.stat = h.cached))
              => /\ Cardinality(eventsBy(h.id)) = 1
                 /\ \A j \in eventsBy(h.id) : events[j].entry = h.entry

\* A change for an indexed file, enqueued during a nested change, has just
\* been handled by the endChange that brought the count to zero, and fired
\* its event.
C3_Witness ==
    /\ lastCall.op = "endChange"
    /\ activeChangeCount = 0
    /\ \E k \in 1..Len(handled) :
          /\ handled[k].id # 0
          /\ changeLog[handled[k].id].deferred
          /\ changeLog[handled[k].id].times = 1
          /\ handled[k].isFile
          /\ eventsBy(handled[k].id) # { }


(***************************************************************************)
(* Claims about entry interning                                            *)
(***************************************************************************)
isGet(call) == call.op \in { "getFileForPath", "getDirectoryForPath" }

\* C4: when getFileForPath or getDirectoryForPath returns for a normalized
\* path for which an earlier call returned a handle, and the path has not
\* been removed from the index since (no completed unwatch covering it, no
\* close), it returns that same handle and adds no entry to the index.
C4_SameHandleForSamePath ==
    (isGet(lastCall) /\ lastCall.ok /\ lastCall.before # { })
        => /\ \A h \in lastCall.before : h[2] = lastCall.result
           /\ ~lastCall.created

\* A call has just returned the handle an earlier call with a different
\* input, normalizing to the same path, had returned.
C4_Witness ==
    /\ isGet(lastCall) /\ lastCall.ok
    /\ \E h \in lastCall.before : h[3] # lastCall.raw /\ h[2] = lastCall.result

\* C5 as stated: whenever an entry is in the index under path p, every handle
\* ever returned for an input normalizing to p is that entry.
C5_EveryHandleEverReturned ==
    \A p \in DOMAIN index : \A h \in allHandles : h[1] = p => h[2] = index[p]

\* C5 amended: whenever an entry is in the index under path p, every handle
\* that getFileForPath or getDirectoryForPath returned for an input
\* normalizing to p since p was last removed from the index is that entry,
\* and any two such handles for one path are the same object.
C5_HandlesSinceLastRemoval ==
    /\ \A p \in DOMAIN index : \A h \in liveHandles : h[1] = p => h[2] = index[p]
    /\ \A h, g \in liveHandles : h[1] = g[1] => h[2] = g[2]

\* An entry has been removed from the index and its path looked up again:
\* the index holds a second object for the path, the one the calls since the
\* removal have returned.
C5_Witness ==
    \E p \in DOMAIN index :
        /\ \E h \in allHandles : h[1] = p /\ h[2] # index[p]
        /\ \E g \in liveHandles : g[1] = p /\ g[2] = index[p]


\* C11: if the backend reports a change for an indexed path before a change
\* for another indexed path, the change event of the first is fired before
\* the change event of the second.
C11_EventsInArrivalOrder ==
    \A a, b \in DOMAIN changeLog :
        (/\ a < b
         /\ changeLog[a].fired # 0 /\ changeLog[b].fired # 0
         /\ changeLog[a].entry # NoEntry /\ changeLog[b].entry # NoEntry
         /\ changeLog[a].entry # changeLog[b].entry)
            => changeLog[a].fired < changeLog[b].fired


(***************************************************************************)
(* Claims about _normalizePath                                             *)
(***************************************************************************)
\* C12: whenever _normalizePath(p, d) returns a value, _normalizePath of that
\* value with the same d returns too, and returns the same value.
C12_NormalizeIdempotent ==
    (lastCall.op = "normalizePath" /\ lastCall.result.ok)
        => /\ lastCall.again.ok
           /\ lastCall.again.path = lastCall.result.path


\* The result keeps the leading pair of slashes of a UNC path.
keepsUNCPair(call) == impl.normalizeUNCPaths /\ startsWithDuplicatedSlash(call.path)

isCanonical(path, isDirectory, unc) ==
    /\ isAbsolutePath(path)
    /\ \A i \in 1..(Len(path) - 1) :
          (path[i] = "/" /\ path[i + 1] = "/") => (unc /\ i = 1)
    /\ LET segments == splitSlash(path, << >>)
       IN  \A i \in 1..Len(segments) : segments[i] # DotDot
    /\ isDirectory => (path # << >> /\ path[Len(path)] = "/")

\* C13: every value _normalizePath(p, isDirectory) returns is absolute, has no
\* run of two or more slashes other than the leading pair kept for a UNC
\* path, has no ".." segment, and ends with "/" when isDirectory is true.
C13_NormalizedIsCanonical ==
    (lastCall.op = "normalizePath" /\ lastCall.result.ok)
        => isCanonical(lastCall.result.path, lastCall.isDirectory, keepsUNCPair(lastCall))


(***************************************************************************)
(* Claims about getFileForPath and getDirectoryForPath                     *)
(***************************************************************************)
endsWithSlash(path) == path # << >> /\ path[Len(path)] = "/"

\* C14: getFileForPath returns a File whose fullPath has no trailing slash,
\* and getDirectoryForPath a Directory whose fullPath ends in "/".
C14_HandleKindMatchesCall ==
    (isGet(lastCall) /\ lastCall.ok)
        => LET e == entries[lastCall.result]
           IN  IF lastCall.op = "getFileForPath"
               THEN e.isFile /\ ~endsWithSlash(e.fullPath)
               ELSE ~e.isFile /\ endsWithSlash(e.fullPath)


\* The first character is not "/" and the second is not ":".
notAbsolute(raw) ==
    ~(\/ Len(raw) >= 1 /\ raw[1] = "/"
      \/ Len(raw) >= 2 /\ raw[2] = ":")

\* Going through the segments from the k-th on with kept segments before it,
\* some ".." has fewer than least segments before it.
RECURSIVE climbs(_, _, _, _)
climbs(segments, k, kept, least) ==
    IF k > Len(segments) THEN FALSE
    ELSE IF segments[k] = << ".", "." >>
         THEN kept < least \/ climbs(segments, k + 1, kept - 1, least)
         ELSE climbs(segments, k + 1, kept + 1, least)

segmentsOf(raw) == splitSlash(collapseSlashes(raw), << >>)

\* A ".." has only the root segment before it: it would climb above the root.
climbsAboveRoot(raw) == climbs(segmentsOf(raw), 2, 1, 2)

\* A ".." has only the root segment and one more before it: it would climb
\* to the root, or above it.
climbsToRoot(raw) == climbs(segmentsOf(raw), 2, 1, 3)

GetFailsOnlyForInvalidPath ==
    isGet(lastCall) => (~lastCall.ok <=> (notAbsolute(lastCall.raw)
                                          \/ climbsAboveRoot(lastCall.raw)))

\* C15 as stated: the calls throw exactly when the path is not absolute or a
\* ".." segment would climb to or above the root.
C15_FailsWhenClimbingToRoot ==
    isGet(lastCall) => (~lastCall.ok <=> (notAbsolute(lastCall.raw)
                                          \/ climbsToRoot(lastCall.raw)))

FailedGetAddsNoEntry ==
    (isGet(lastCall') /\ ~lastCall'.ok) => (index' = index /\ entries' = entries)

\* C15 amended: getFileForPath/getDirectoryForPath throw, adding no entry to
\* the index, exactly when the path is not absolute or a ".." segment would
\* climb above the root (it has fewer than two segments before it); for
\* every other path, one that climbs just to the root included, they return
\* a handle.
C15_GetFailsExactlyOnInvalidPath ==
    [](GetFailsOnlyForInvalidPath) /\ [][FailedGetAddsNoEntry]_vars

\* A call has just thrown for a path with a ".." above the root, with an
\* entry in the index.
C15_Witness ==
    /\ isGet(lastCall) /\ ~lastCall.ok
    /\ lastCall.error = "Invalid absolute path"
    /\ index # EmptyIndex


(***************************************************************************)
(* Further claims about watch and unwatch                                  *)
(***************************************************************************)
UnwatchOfUnregisteredFails ==
    (/\ lastCall'.op = "unwatch"
     /\ \A i \in 1..Len(watchedRoots) : watchedRoots[i].path # lastCall'.path)
        => /\ lastCb'.kind = "unwatch"
           /\ lastCb'.err = NotWatched
           /\ watchRequests' = watchRequests
           /\ watchedRoots' = watchedRoots
           /\ roots' = roots
           /\ index' = index
           /\ entries' = entries

\* C16: unwatch of an entry whose fullPath is no key of the registry calls
\* back with the not-watched error, enqueues no request, and leaves the
\* registry, the index and every entry's cached data as they were.
C16_UnwatchNotWatched == [][UnwatchOfUnregisteredFails]_vars

\* unwatch has just failed for an entry while another root is registered.
C16_Witness ==
    /\ lastCall.op = "unwatch"
    /\ lastCb.kind = "unwatch" /\ lastCb.err = NotWatched
    /\ watchedRoots # << >>
    /\ \A i \in 1..Len(watchedRoots) : watchedRoots[i].path # lastCall.path


(***************************************************************************)
(* Further claims about resolve                                            *)
(***************************************************************************)
ResolveOfMissingFails ==
    (/\ lastCb'.kind = "resolve"
     /\ lastCb'.item = NoEntry
     /\ lastCb'.stat # NoError)
        => /\ lastCb'.err = lastCb'.stat
           /\ lastCb'.entry = NoEntry
           /\ index' = index
           /\ entries' = entries
           /\ UNCHANGED << liveHandles, allHandles >>

\* C17: when resolve found no index entry for the path and the backend's
\* stat reports an error, the callback receives that error and no entry,
\* no entry is created and the index is left as it was.
C17_ResolveFailsForMissingTarget == [][ResolveOfMissingFails]_vars

\* resolve of an unindexed path has just failed with the backend's error,
\* while the index holds some other entry.
C17_Witness ==
    /\ lastCb.kind = "resolve"
    /\ lastCb.item = NoEntry
    /\ lastCb.err = BackendError
    /\ lastCb.entry = NoEntry
    /\ index # EmptyIndex
    /\ indexGetEntry(index, normalizePath(lastCb.raw, FALSE).path) = NoEntry


(***************************************************************************)
(* Claims about init and close                                             *)
(***************************************************************************)
InitKeepsBackend ==
    impl # NoImpl
        => /\ impl' = impl
           /\ lastCall'.op = "init" => lastCall'.initWatchers = impl

\* C18: once init has set a backend, no later init call changes _impl or
\* registers the watcher callbacks on another backend.
C18_InitTakesEffectOnce == [][InitKeepsBackend]_vars


\* C19: after close() the index is empty and no watched root remains
\* registered or active.
C19_CloseClearsWatchers ==
    lastCall.op = "close"
        => /\ index = EmptyIndex
           /\ watchedRoots = << >>
           /\ \A r \in DOMAIN roots : ~roots[r].active

\* The part of C19 that the code does keep: close() empties the index.
C19_CloseClearsIndex == lastCall.op = "close" => index = EmptyIndex


\* C20: a watched-root record that unwatch or the offline handler has set
\* inactive never becomes active again: while a request to unwatch a record
\* is in the queue, that record is not active.
C20_UnwatchedRootStaysInactive ==
    \A i \in 1..Len(watchRequests) :
        ~watchRequests[i].shouldWatch => ~roots[watchRequests[i].root].active


(***************************************************************************)
(* Claims about failing and interleaved watch requests                     *)
(***************************************************************************)
\* C21: on either kind of backend, when a watchPath call made for watch(root)
\* reported an error, the watch callback receives an error, the root's
\* record is not active and it is no longer in the registry.
C21_FailedWatchPathFailsWatch ==
    (lastCb.kind = "watch" /\ lastCb.root # NoRoot /\ lastCb.sawError)
        => /\ lastCb.err # NoError
           /\ ~roots[lastCb.root].active
           /\ \A i \in 1..Len(watchedRoots) : watchedRoots[i].root # lastCb.root

\* The same on a backend that watches recursively, where the one watchPath
\* call's callback is the request's continuation.
C21_OnRecursiveBackend == impl.recursiveWatch => C21_FailedWatchPathFailsWatch


\* C22: whenever a watch reports success to its callback, the registry maps
\* the entry's fullPath to the record of that call and the record is active.
C22_SuccessfulWatchIsRegistered ==
    (lastCb.kind = "watch" /\ lastCb.err = NoError)
        => /\ roots[lastCb.root].active
           /\ \E i \in 1..Len(watchedRoots) :
                  /\ watchedRoots[i].path = lastCb.path
                  /\ watchedRoots[i].root = lastCb.root


ThrowingCallbackPopsHead ==
    (lastCb'.kind \in { "watch", "unwatch" } /\ lastCb'.threw)
        => /\ Len(watchRequests) > 0
           /\ Len(watchRequests') = Len(watchRequests) - 1
           /\ \A i \in 1..Len(watchRequests') :
                  /\ sameRequest(watchRequests'[i], watchRequests[i + 1])
                  /\ started(watchRequests'[i]) <=> (i = 1)

\* C23: when the caller's callback of the head request throws, the head is
\* still popped and the next queued request, and no other, is started; no
\* request whose callback has run stays in the queue.
C23_ThrowingCallbackStillPops ==
    /\ [][ThrowingCallbackPopsHead]_vars
    /\ [](\A i \in 1..Len(watchRequests) : watchRequests[i].phase # "done")

\* A callback has just thrown and the request behind it has been started.
C23_Witness ==
    /\ lastCb.kind \in { "watch", "unwatch" }
    /\ lastCb.threw
    /\ Len(watchRequests) >= 1
    /\ started(watchRequests[1])
    /\ watchRequests[1].root # lastCb.root \/ watchRequests[1].cb # lastCb.kind


\* A step removes a request from the queue exactly when it invokes the
\* callback of a request, and that request is the started head.
CallbackOncePerRequest ==
    LET popped == Len(watchRequests') = Len(watchRequests) - 1
        called == /\ lastCall' = NoCall
                  /\ lastCb'.kind \in { "watch", "unwatch", "unwatchAll" }
    IN  /\ popped <=> called
        /\ popped => /\ started(watchRequests[1])
                     /\ lastCb'.kind = watchRequests[1].cb
                     /\ lastCb'.root = watchRequests[1].root
                     /\ lastCb'.entry = watchRequests[1].entry
                     /\ \A i \in 1..Len(watchRequests') :
                            sameRequest(watchRequests'[i], watchRequests[i + 1])
        /\ Len(watchRequests') >= Len(watchRequests) - 1

\* C24: with a backend that calls back every call it receives, every queued
\* request is started and leaves the queue with its callback invoked once,
\* the queue becomes empty, and no request behind the head is started while
\* the head has not completed.
C24_QueueDrains ==
    /\ [][CallbackOncePerRequest]_vars
    /\ [](\A i \in 2..Len(watchRequests) : ~started(watchRequests[i]))
    /\ [](Len(watchRequests) > 0 => started(watchRequests[1]))
    /\ (watchRequests # << >>) ~> (watchRequests = << >>)

\* The queue has drained after holding several requests: the last callback
\* was that of an unwatch and two roots have been watched.
C24_Witness ==
    /\ watchRequests = << >>
    /\ lastCall = NoCall
    /\ lastCb.kind = "unwatch"
    /\ Len(roots) >= 2


(***************************************************************************)
(* Claims about the offline signal and external changes                    *)
(***************************************************************************)
OfflineUnwatchesAll ==
    lastCall'.op = "offline"
        => /\ watchedRoots' = << >>
           /\ lastCall'.registryAtEvent = << >>
           /\ Len(watchRequests') = Len(watchRequests) + Len(watchedRoots)
           /\ \A i \in 1..Len(watchRequests) :
                  sameRequest(watchRequests'[i], watchRequests[i])
           /\ \A i \in 1..Len(watchedRoots) :
                  LET r == watchedRoots[i].root
                      q == watchRequests'[Len(watchRequests) + i]
                  IN  /\ ~roots'[r].active
                      /\ ~q.shouldWatch
                      /\ q.root = r
                      /\ q.entry = roots[r].entry
           /\ Len(events') = 1
           /\ events'[1].entry = NoEntry

\* C25: on the offline signal every registered root is set inactive, deleted
\* from the registry and given an unwatch request; the registry is empty
\* when the one wholesale change event is fired and when the handler returns.
C25_OfflineUnwatchesAll == [][OfflineUnwatchesAll]_vars

\* The offline signal has just arrived while requests were queued: the
\* queue holds them and the unwatch request of a root, which is inactive.
C25_Witness ==
    /\ lastCall.op = "offline"
    /\ \E i \in 1..Len(watchRequests) :
           /\ watchRequests[i].cb = "unwatchAll"
           /\ ~roots[watchRequests[i].root].active
    /\ Len(watchRequests) >= 2
    /\ watchedRoots = << >>


hasNoCachedData(entry) == entry.stat = NoStat /\ ~entry.contents.cached

WholesaleChangeClearsAll ==
    (Len(handled') = 1 /\ handled'[1].path = NoPath)
        => /\ \A p \in DOMAIN index : hasNoCachedData(entries'[index[p]])
           /\ Len(events') = 1
           /\ events'[1].entry = NoEntry
           /\ index' = index
           /\ watchedRoots' = watchedRoots

\* C26: handling an external change with a null path clears the cached stat
\* and cached contents of every entry in the index, fires exactly one change
\* event with no entry, and leaves the index and the registry as they were.
C26_WholesaleChangeClearsAll == [][WholesaleChangeClearsAll]_vars

\* A wholesale change has just been handled while a root was registered and
\* both indexed entries had cached data.
C26_Witness ==
    /\ Len(handled) = 1
    /\ handled[1].path = NoPath
    /\ Cardinality(handled[1].withCachedData) >= 2
    /\ watchedRoots # << >>
    /\ Len(events) = 1

FileChangeHandled ==
    LET h     == handled'[1]
        e     == h.entry
        fresh == h.stat # NoStat /\ entries[e].stat # NoStat /\ h.stat = entries[e].stat
    IN  (Len(handled') = 1 /\ h.entry # NoEntry /\ entries[h.entry].isFile)
            => IF fresh
               THEN /\ events' = << >>
                    /\ entries'[e] = entries[e]
               ELSE /\ ~entries'[e].contents.cached
                    /\ entries'[e].stat = h.stat
                    /\ Len(events') = 1
                    /\ events'[1].entry = e

C27_FreshWitness ==
    /\ Len(handled) = 1
    /\ handled[1].isFile
    /\ handled[1].stat # NoStat
    /\ handled[1].stat = handled[1].cached
    /\ events = << >>
    /\ entries[handled[1].entry].contents.cached


outstanding(id) == { i \in 1..Len(watchRequests) : watchRequests[i].change = id }

\* C28: for a change of a directory whose reload has delivered its contents,
\* the directory's event has not fired while a watch or unwatch request made
\* for an added or removed child is in the queue, and has fired exactly once
\* as soon as none is, at once when there was none to make.
C28_DirectoryEventAfterChildren ==
    \A id \in DOMAIN changeLog :
        changeLog[id].reloaded
            => changeLog[id].fires = IF outstanding(id) = {} THEN 1 ELSE 0

\* The requests for an added and a removed child of a watched directory have
\* both completed, and its event has fired.
C28_Witness ==
    /\ lastCb.kind = "directoryChange"
    /\ Len(events) = 1
    /\ Len(events[1].added) = 1
    /\ Len(events[1].removed) = 1
    /\ changeLog[events[1].by].fires = 1
    /\ watchedRoots # << >>


reloading(id) == \E k \in 1..Len(pendingReaddir) : pendingReaddir[k].by = id

firedOnce(id) == id \in DOMAIN changeLog /\ changeLog[id].fires = 1

\* C29: with a backend that calls back, every external change handled for
\* an indexed directory leads to exactly one change event for that
\* directory, whether its reload succeeds or reports an error.
C29_DirectoryChangeFiresOnce ==
    /\ \A id \in 1..MaxChanges : reloading(id) ~> firedOnce(id)
    /\ [](\A id \in DOMAIN changeLog : changeLog[id].fires <= 1)

\* The same for the reloads that deliver contents: a change leads to its one
\* event unless its reload called back without contents.
C29_WhenContentsDelivered ==
    /\ \A id \in 1..MaxChanges :
           reloading(id) ~> (id \in DOMAIN changeLog
                             /\ (firedOnce(id) \/ ~changeLog[id].reloaded))
    /\ [](\A id \in DOMAIN changeLog :
              /\ changeLog[id].fires <= 1
              /\ (changeLog[id].fires = 1 /\ changeLog[id].entry # NoEntry
                  /\ ~entries[changeLog[id].entry].isFile)
                     => changeLog[id].reloaded)


UnwatchedReloadPrunes ==
    (lastCall'.op = "readdir" /\ lastCall'.defined /\ ~lastCall'.watched)
        => /\ Len(events') = 1
           /\ events'[1].entry = lastCall'.dir
           /\ events'[1].added = lastCall'.added
           /\ events'[1].removed = lastCall'.removed
           /\ \A i \in 1..Len(lastCall'.removed) :
                  \A p \in DOMAIN index' :
                      ~startsWith(p, entries[lastCall'.removed[i]].fullPath)

\* C30: when the reload of a directory that is under no watched root's
\* filter calls back, no entry whose fullPath begins with that of a removed
\* child is left in the index when the change event with the added and
\* removed children is fired.
C30_UnwatchedReloadPrunesIndex == [][UnwatchedReloadPrunes]_vars

UnwatchedReloadClears ==
    (lastCall'.op = "readdir" /\ lastCall'.defined /\ ~lastCall'.watched)
        => /\ Len(events') = 1
           /\ events'[1].entry = lastCall'.dir
           /\ events'[1].added = lastCall'.added
           /\ events'[1].removed = lastCall'.removed
           /\ index' = index
           /\ \A i \in 1..Len(lastCall'.removed) :
                  \A p \in DOMAIN index' :
                      startsWith(p, entries[lastCall'.removed[i]].fullPath)
                          => hasNoCachedData(entries'[index'[p]])

\* What the code does in the case of C30: the entries under a removed child
\* stay in the index with their cached data cleared.
C30_UnwatchedReloadClearsCache == [][UnwatchedReloadClears]_vars


(***************************************************************************)
(* Claims about the index filter and _watchOrUnwatchEntry                  *)
(***************************************************************************)
\* The registered roots that are active and whose path is a prefix of path.
activeRootsOver(path) ==
    { watchedRoots[i].root : i \in { j \in 1..Len(watchedRoots) :
                                        /\ rootActive(j)
                                        /\ startsWith(path, watchedRoots[j].path) } }

inactiveRootsOver(path) ==
    { watchedRoots[i].root : i \in { j \in 1..Len(watchedRoots) :
                                        /\ ~rootActive(j)
                                        /\ startsWith(path, watchedRoots[j].path) } }

filterFollowsActiveRoot ==
    IF activeRootsOver(lastCall.path) = { }
    THEN lastCall.result = TRUE
    ELSE \E r \in activeRootsOver(lastCall.path) :
             lastCall.result = lastCall.accepts[r]

\* C31: _indexFilter returns the filter result of an active watched root the
\* path is inside, and true for a path inside no active watched root,
\* whatever inactive roots are registered.
C31_IndexFilterFollowsActiveRoots ==
    lastCall.op = "indexFilter" => filterFollowsActiveRoot

\* What holds of the code: the same when no inactive root is registered over
\* the path.
C31_WithoutInactiveRootOver ==
    (lastCall.op = "indexFilter" /\ inactiveRootsOver(lastCall.path) = { })
        => filterFollowsActiveRoot


\* unwatch(entry) finds a record registered for the entry's path whose entry
\* is another object.
unwatchesNonRoot(call) ==
    /\ call.op = "unwatch"
    /\ registryGet(watchedRoots, call.path) # NoRoot
    /\ roots[registryGet(watchedRoots, call.path)].entry # call.entry

\* The reload of a directory under a watched root's filter watches its added
\* and unwatches its removed children, none of them the root's entry.
reloadsChildren(call) ==
    /\ call.op = "readdir" /\ call.defined /\ call.watched
    /\ Len(call.added) + Len(call.removed) > 0
    /\ \A c \in Range(call.added) \cup Range(call.removed) :
           c # roots[findWatchedRootForPath(entries[call.dir].fullPath)].entry

NonRootEntryIsNoOp ==
    /\ unwatchesNonRoot(lastCall')
           => /\ watchRequests' = watchRequests
              /\ lastCb'.kind = "unwatch" /\ lastCb'.entry = lastCall'.entry
              /\ lastCb'.err = NoError
    /\ reloadsChildren(lastCall')
           => /\ watchRequests' = watchRequests
              \* every child's callback has completed: the event is fired
              /\ Len(events') = 1 /\ events'[1].by = lastCall'.by
              /\ \A k \in 1..Len(pendingReaddir') : pendingReaddir'[k].by # lastCall'.by

WatchOfRootEnqueuesOne ==
    (lastCall'.op = "watch" /\ lastCall'.enqueued)
        => /\ Len(watchRequests') = Len(watchRequests) + 1
           /\ \A i \in 1..Len(watchRequests) :
                  sameRequest(watchRequests'[i], watchRequests[i])
           /\ LET req == watchRequests'[Len(watchRequests')]
              IN  /\ req.shouldWatch /\ req.entry = lastCall'.entry
                  /\ roots'[req.root].entry = req.entry
                  /\ backendCall(req) = [command |-> "watchPath",
                                         path |-> lastCall'.path]

\* On a recursive backend a started request has one backend call outstanding
\* and a request that is not started has none.
OneCallPerRequest ==
    \A i \in 1..Len(watchRequests) :
        /\ started(watchRequests[i]) => /\ watchRequests[i].phase = "calls"
                                        /\ watchRequests[i].count = 1
        /\ ~started(watchRequests[i]) => watchRequests[i].count = 0
        /\ watchRequests[i].entry = roots[watchRequests[i].root].entry

\* C32: on a recursive backend, watching or unwatching an entry that is not
\* the watched root's entry enqueues no request and makes no backend call, and
\* its callback is called with success; watching the root's entry enqueues
\* one request, which makes one watchPath call for the root's fullPath.
C32_RecursiveWatchesRootOnly ==
    /\ [][NonRootEntryIsNoOp /\ WatchOfRootEnqueuesOne]_vars
    /\ []OneCallPerRequest

\* A reload has watched or unwatched the children of a watched directory.
C32_Witness ==
    /\ impl.recursiveWatch
    /\ lastCall.op = "readdir" /\ lastCall.defined /\ lastCall.watched
    /\ Len(lastCall.added) + Len(lastCall.removed) > 0

\* An unwatch was given an entry that is not the registered root's entry.
C32_NonRootUnwatchWitness ==
    /\ impl.recursiveWatch
    /\ lastCall.op = "unwatch"
    /\ lastCb.kind = "unwatch" /\ lastCb.root # NoRoot
    /\ roots[lastCb.root].entry # lastCall.entry


\* The visit from start reaches the indexed entry e and the filter passes it:
\* the filter passes start, e, and every directory between them, all indexed.
visitedAndPassed(e, start, passes) ==
    /\ passes[start] /\ passes[e]
    /\ \/ e = start
       \/ /\ ~entries[start].isFile
          /\ \E p \in DOMAIN index : index[p] = e
          /\ startsWith(entries[e].fullPath, entries[start].fullPath)
          /\ Len(entries[e].fullPath) > Len(entries[start].fullPath)
          /\ \A k \in (Len(entries[start].fullPath) + 1)..(Len(entries[e].fullPath) - 1) :
                 entries[e].fullPath[k] = "/"
                     => /\ SubSeq(entries[e].fullPath, 1, k) \in DOMAIN index
                        /\ passes[index[SubSeq(entries[e].fullPath, 1, k)]]

\* The entries a request is to call the backend for.
entriesToCallFor(req, passes) ==
    { e \in 1..Len(entries) :
          /\ visitedAndPassed(e, req.entry, passes)
          /\ (~entries[e].isFile \/ e = roots[req.root].entry) }

headPopped == Len(watchRequests') = Len(watchRequests) - 1

continuationRan ==
    /\ headPopped
    /\ lastCb'.kind = watchRequests[1].cb
    /\ lastCb'.entry = watchRequests[1].entry
    /\ lastCb'.root = watchRequests[1].root

\* The visit of the head request calls back.
VisitIssuesOneCallPerEntry ==
    lastCall'.op = "visit"
        => /\ watchRequests[1].phase = "visit"
           /\ IF lastCall'.err # NoError
              THEN continuationRan /\ lastCb'.err = lastCall'.err
              ELSE IF entriesToCallFor(watchRequests[1], lastCall'.passes) = { }
              THEN continuationRan /\ lastCb'.err = NoError
              ELSE /\ ~headPopped /\ lastCb' = NoCb
                   /\ sameRequest(watchRequests'[1], watchRequests[1])
                   /\ watchRequests'[1].phase = "calls"
                   /\ watchRequests'[1].count =
                          Cardinality(entriesToCallFor(watchRequests[1],
                                                       lastCall'.passes))

\* One of the head request's backend calls calls back.
ContinuationAfterLastCall ==
    (lastCall' = NoCall /\ watchRequests # << >> /\ watchRequests' # watchRequests)
        => /\ watchRequests[1].phase = "calls"
           /\ IF watchRequests[1].count = 1
              THEN continuationRan
              ELSE /\ ~headPopped /\ lastCb' = NoCb
                   /\ sameRequest(watchRequests'[1], watchRequests[1])
                   /\ watchRequests'[1].phase = "calls"
                   /\ watchRequests'[1].count = watchRequests[1].count - 1

\* A request leaves the queue in the step its continuation runs, and only then.
ContinuationOnce ==
    headPopped <=> /\ lastCall'.op \in { "none", "visit" }
                   /\ lastCb'.kind \in { "watch", "unwatch", "unwatchAll" }

CallsOutstanding ==
    \A i \in 1..Len(watchRequests) :
        /\ watchRequests[i].phase = "calls" => watchRequests[i].count >= 1
        /\ watchRequests[i].phase # "calls" => watchRequests[i].count = 0

\* C33: on a non-recursive backend a request makes one backend call for each
\* entry its visit reaches that the root's filter passes and that is a
\* directory or the root's entry, nothing below a rejected entry being
\* visited; its continuation runs once, in the step the last of these calls
\* calls back, or at once with success when there is no such entry.
C33_OneCallPerCollectedEntry ==
    /\ [][VisitIssuesOneCallPerEntry /\ ContinuationAfterLastCall
            /\ ContinuationOnce]_vars
    /\ []CallsOutstanding

\* A visit has collected two directories and rejected or skipped a file.
C33_Witness ==
    /\ lastCall.op = "visit" /\ lastCall.err = NoError
    /\ Len(entries) = 3
    /\ watchRequests # << >> /\ watchRequests[1].phase = "calls"
    /\ watchRequests[1].count = 2

\* A visit has collected nothing and the continuation has run with success.
C33_ImmediateWitness ==
    /\ lastCall.op = "visit" /\ lastCall.err = NoError
    /\ lastCb.kind = "watch" /\ lastCb.err = NoError


\* No entry the index held under path before the step has cached data after it.
clearedUnder(path) ==
    \A p \in DOMAIN index :
        startsWith(p, path) => hasNoCachedData(entries'[index[p]])

UnwatchClearsCachedData ==
    \* the callback of unwatch or _unwatchAll has run, in a request's
    \* continuation or at once
    /\ (lastCb'.kind \in { "unwatch", "unwatchAll" } /\ lastCb'.root # NoRoot)
           => clearedUnder(lastCb'.path)
    \* the continuation of any request that unwatches has run
    /\ (watchRequests # << >> /\ headPopped /\ ~watchRequests[1].shouldWatch)
           => clearedUnder(entries[watchRequests[1].entry].fullPath)

\* C34: when the backend unwatch of an entry has completed, on either kind
\* of backend and with or without an error, every entry in the index whose
\* fullPath begins with the entry's fullPath has no cached stat and no cached
\* contents by the time the unwatch callback has run.
C34_UnwatchClearsCachedData == [][UnwatchClearsCachedData]_vars

\* An unwatch is under way over a directory with cached contents and a file
\* with a cached stat.
C34_CachedBeforeUnwatch ==
    /\ watchRequests # << >> /\ watchRequests[1].cb = "unwatch"
    /\ started(watchRequests[1])
    /\ \E p, q \in DOMAIN index :
           /\ startsWith(p, entries[watchRequests[1].entry].fullPath)
           /\ startsWith(q, entries[watchRequests[1].entry].fullPath)
           /\ entries[index[p]].stat # NoStat
           /\ entries[index[q]].contents.cached /\ ~entries[index[q]].isFile

\* The callback of an unwatch that failed has run on a non-recursive backend,
\* and the file under the unwatched directory has no cached data.
C34_Witness ==
    /\ lastCb.kind = "unwatch" /\ lastCb.root # NoRoot
    /\ lastCb.err # NoError /\ ~impl.recursiveWatch
    /\ \E e \in 1..Len(entries) :
           /\ entries[e].isFile
           /\ startsWith(entries[e].fullPath, lastCb.path)
           /\ hasNoCachedData(entries[e])

====
